---- MODULE Spec2Model ----
(***************************************************************************)
(* Verification model of the aiq event queue: the persistent topic log    *)
(* (Topic), the topic registry and produce/consume facade (EventQueue)     *)
(* and the subscription fan-out (SubscriptionManager).                     *)
(*                                                                         *)
(* Files are modelled as sequences of bytes.  Multi-byte integers are      *)
(* stored in host order (little endian), exactly sizeof(T) bytes wide.     *)
(* Integers of 2^30 and more are folded into the one value Huge, which is  *)
(* larger than every offset, length and byte position the program writes   *)
(* within the bounds below; such values only arise from parsing garbage.   *)
(***************************************************************************)
EXTENDS Integers, Sequences, FiniteSets, TLC

\* ------------------------------------------------------------------ bounds
MaxAppends == 2      \* appends (completed or interrupted) in one behaviour
MaxRestarts == 2     \* process starts after the first one
MaxSubOps == 2       \* subscribe calls
MaxUnsubs == 1       \* unsubscribe / unsubscribe_all calls
MaxFaults == 1       \* injected faults (crash inside append, tail truncation)
MaxRejects == 1      \* produce requests rejected by validation
MaxCreates == 2      \* recorded create_topic calls
MaxStart == 1        \* largest start_offset a subscribe call names
MaxFrames == 2       \* request headers read on the TCP connection

Topics == {"a", "b"}
Workers == {"w1", "w2"}
SubIdOrder == <<"s1", "s2">>   \* ascending, as std::map<std::string, ...> iterates
SubIds == {SubIdOrder[i] : i \in 1 .. Len(SubIdOrder)}
Executors == {"e1", "e2"}
Payloads == {<<7>>, <<9, 9>>}
StartOffsets == 0 .. MaxStart

\* The number of I/O threads main starts (config.thread_pool_size).
ThreadPoolSize == 2
RequestTopics == Topics \cup {""}       \* topic names a request may carry
\* The start offsets and limits of the reads examined: every offset up to
\* one past the last a topic can hold, every limit up to one more than that.
ReadStarts == 0 .. MaxAppends + 1
ReadLimits == 0 .. MaxAppends + 1
RequestPayloads == Payloads \cup {<< >>}  \* payloads a request may carry

\* ---------------------------------------------------------- binary codec
U64 == 8
U32 == 4
Huge == 1024 * 1024 * 1024
MaxStringLen == 1024 * 1024 * 100

Pow256(i) == CASE i = 0 -> 1 [] i = 1 -> 256 [] i = 2 -> 65536 [] OTHER -> 16777216

\* BinaryUtils::write_binary<T>: the sizeof(T) = n bytes of value v.
write_binary(v, n) ==
    [i \in 1 .. n |-> IF i <= 4 THEN (v \div Pow256(i - 1)) % 256 ELSE 0]

\* BinaryUtils::read_binary<T> succeeds iff n bytes remain at position p.
can_read(f, p, n) == p + n <= Len(f)

\* BinaryUtils::read_binary<T>: the value of the n bytes at 0-based position p.
read_binary(f, p, n) ==
    LET b(i) == f[p + 1 + i]
        high == \E i \in 4 .. n - 1 : b(i) # 0
    IN  IF high \/ b(3) >= 64 THEN Huge
        ELSE b(0) + 256 * b(1) + 65536 * b(2) + 16777216 * b(3)

\* BinaryUtils::write_string: 4-byte length, then the bytes.
write_string(str) == write_binary(Len(str), U32) \o str

\* BinaryUtils::read_string succeeds iff the length and that many bytes can be read.
can_read_string(f, p) ==
    /\ can_read(f, p, U32)
    /\ read_binary(f, p, U32) <= MaxStringLen
    /\ p + U32 + read_binary(f, p, U32) <= Len(f)

read_string(f, p) ==
    LET len == read_binary(f, p, U32)
    IN  [i \in 1 .. len |-> f[p + U32 + i]]

Prefix(f, k) == [i \in 1 .. k |-> f[i]]

\* ------------------------------------------------- std::map<uint64, uint64>
EmptyMap == << >>

\* An insertion that keeps the value of a key the map already holds
\* (std::map::insert).
MapPut_if_absent(m, k, v) ==
    [x \in DOMAIN m \cup {k} |-> IF x \in DOMAIN m THEN m[x] ELSE v]

\* m[k] = v
MapPut(m, k, v) == [x \in DOMAIN m \cup {k} |-> IF x = k THEN v ELSE m[x]]
SetMax(S) == CHOOSE x \in S : \A y \in S : y <= x
SetMin(S) == CHOOSE x \in S : \A y \in S : x <= y
Max2(a, b) == IF a >= b THEN a ELSE b

\* struct Message
Message(off, t, p) == [offset |-> off, topic |-> t, payload |-> p]

\* -------------------------------------------------------- NetworkProtocol
\* Wire values of enum class CommandType and enum class StatusCode.
PRODUCE_REQUEST == 1
CONSUME_REQUEST == 2
GET_TOPIC_OFFSET_REQUEST == 3
CREATE_TOPIC_REQUEST == 4
LIST_TOPICS_REQUEST == 5
PRODUCE_RESPONSE == 129
CONSUME_RESPONSE == 130
GET_TOPIC_OFFSET_RESPONSE == 131
CREATE_TOPIC_RESPONSE == 132
LIST_TOPICS_RESPONSE == 133
ERROR_RESPONSE == 255
SUCCESS == 0
ERROR_TOPIC_NOT_FOUND == 1
ERROR_SERIALIZATION == 3
ERROR_INTERNAL_SERVER == 5
ERROR_INVALID_REQUEST == 6
ERROR_PAYLOAD_TOO_LARGE == 7
ERROR_UNKNOWN_COMMAND == 8
MAX_PAYLOAD_SIZE == 64 * 1024 * 1024
U16 == 2

\* The n bytes of v in network byte order, most significant first (what
\* htons / htonl leave in memory).
RECURSIVE big_endian(_, _)
big_endian(v, n) ==
    IF n = 0 THEN << >> ELSE big_endian(v \div 256, n - 1) \o <<v % 256>>

\* ntohs / ntohl of the n bytes at 0-based position offset of data.
RECURSIVE from_big_endian(_, _, _)
from_big_endian(data, offset, n) ==
    IF n = 0 THEN 0
    ELSE from_big_endian(data, offset, n - 1) * 256 + data[offset + n]

\* write_uint16_to_buffer, write_uint32_to_buffer: the bytes appended.
write_uint16_to_buffer(val) == big_endian(val, U16)
write_uint32_to_buffer(val) == big_endian(val, U32)

\* write_uint64_to_buffer on a little-endian host: net_val is
\* (htonl(low half) << 32) | htonl(high half), and its bytes in memory are
\* the high half, most significant byte first, then the low half.
write_uint64_to_buffer(val) ==
    LET high == (val \div 65536) \div 65536
        low == val - high * 65536 * 65536
    IN  big_endian(high, U32) \o big_endian(low, U32)

\* read_uint16_from_buffer read with the bytes in host order.
read_uint16_host_order(data, offset) == data[offset + 1] + 256 * data[offset + 2]

\* read_uint16_from_buffer, read_uint32_from_buffer, read_uint64_from_buffer:
\* the value read at offset (the caller advances offset by the width).
read_uint16_from_buffer(data, offset) == from_big_endian(data, offset, U16)
read_uint32_from_buffer(data, offset) == from_big_endian(data, offset, U32)
read_uint64_from_buffer(data, offset) ==
    from_big_endian(data, offset, U32) * 65536 * 65536
        + from_big_endian(data, offset + U32, U32)

\* n bytes can be read at offset without leaving the buffer. The readers do
\* not check this themselves.
in_buffer(data, offset, n) == offset + n <= Len(data)

\* What reading n bytes at offset outside the buffer is: a read through the
\* null pointer when the buffer is empty (std::vector::data() of an empty
\* vector), a read past the end of the allocation otherwise.
bad_read(data) == IF Len(data) = 0 THEN "null_read" ELSE "read_past_end"

Exceeds == "String length exceeds payload boundary."
NotConsumed == "Did not consume entire payload."
TooLarge == "Reported string length is too large."

\* write_string_to_buffer: length prefix of 2 or 4 bytes, then the bytes.
write_string_to_buffer(str, use_uint16_len) ==
    (IF use_uint16_len THEN write_uint16_to_buffer(Len(str))
     ELSE write_uint32_to_buffer(Len(str))) \o str

\* read_string_from_buffer: the string, the offset after it and the error
\* ("" for none). The length is read before any bound is checked; the bound
\* check then compares offset + len with the payload size.
read_string_from_buffer(data, offset, use_uint16_len) ==
    LET w == IF use_uint16_len THEN U16 ELSE U32
    IN  IF ~in_buffer(data, offset, w)
        THEN [err |-> bad_read(data), str |-> << >>, offset |-> offset + w]
        ELSE LET len == IF use_uint16_len THEN read_uint16_from_buffer(data, offset)
                        ELSE read_uint32_from_buffer(data, offset)
             IN  IF offset + w + len > Len(data)
                 THEN [err |-> Exceeds, str |-> << >>, offset |-> offset + w]
                 ELSE IF len > MAX_PAYLOAD_SIZE
                 THEN [err |-> TooLarge, str |-> << >>, offset |-> offset + w]
                 ELSE [err |-> "", offset |-> offset + w + len,
                       str |-> SubSeq(data, offset + w + 1, offset + w + len)]

\* A deserialize result: the struct, or the error that ended it.
Decoded(x) == [err |-> "", value |-> x]
Failed(e) == [err |-> e, value |-> << >>]

\* RequestHeader::serialize / deserialize
RequestHeader(type, payload_length) == [type |-> type, payload_length |-> payload_length]
RequestHeader_SIZE == 1 + U32
RequestHeader_serialize(h) == <<h.type>> \o write_uint32_to_buffer(h.payload_length)
RequestHeader_deserialize(data) ==
    RequestHeader(data[1], read_uint32_from_buffer(data, 1))

\* ResponseHeader::serialize / deserialize
ResponseHeader(type, status, payload_length) ==
    [type |-> type, status |-> status, payload_length |-> payload_length]
ResponseHeader_serialize(h) ==
    <<h.type, h.status>> \o write_uint32_to_buffer(h.payload_length)
ResponseHeader_deserialize(data) ==
    ResponseHeader(data[1], data[2], read_uint32_from_buffer(data, 2))

\* ProduceRequest::serialize / deserialize
ProduceRequest(topic_name, message_payload) ==
    [topic_name |-> topic_name, message_payload |-> message_payload]
ProduceRequest_serialize(req) ==
    write_string_to_buffer(req.topic_name, TRUE)
        \o write_string_to_buffer(req.message_payload, FALSE)
ProduceRequest_deserialize(data) ==
    LET topic == read_string_from_buffer(data, 0, TRUE)
        payload == read_string_from_buffer(data, topic.offset, FALSE)
    IN  IF topic.err # "" THEN Failed(topic.err)
        ELSE IF payload.err # "" THEN Failed(payload.err)
        ELSE IF payload.offset # Len(data) THEN Failed(NotConsumed)
        ELSE Decoded(ProduceRequest(topic.str, payload.str))

\* ProduceResponse::serialize / deserialize
ProduceResponse(offset) == [offset |-> offset]
ProduceResponse_serialize(res) == write_uint64_to_buffer(res.offset)
ProduceResponse_deserialize(data) ==
    IF ~in_buffer(data, 0, U64) THEN Failed(bad_read(data))
    ELSE IF Len(data) # U64 THEN Failed(NotConsumed)
    ELSE Decoded(ProduceResponse(read_uint64_from_buffer(data, 0)))

\* ConsumeRequest::serialize / deserialize
ConsumeRequest(topic_name, start_offset, max_messages) ==
    [topic_name |-> topic_name, start_offset |-> start_offset,
     max_messages |-> max_messages]
ConsumeRequest_serialize(req) ==
    write_string_to_buffer(req.topic_name, TRUE)
        \o write_uint64_to_buffer(req.start_offset)
        \o write_uint32_to_buffer(req.max_messages)
ConsumeRequest_deserialize(data) ==
    LET topic == read_string_from_buffer(data, 0, TRUE)
    IN  IF topic.err # "" THEN Failed(topic.err)
        ELSE IF ~in_buffer(data, topic.offset, U64 + U32) THEN Failed(bad_read(data))
        ELSE IF topic.offset + U64 + U32 # Len(data) THEN Failed(NotConsumed)
        ELSE Decoded(ConsumeRequest(topic.str,
                                    read_uint64_from_buffer(data, topic.offset),
                                    read_uint32_from_buffer(data, topic.offset + U64)))

\* ConsumeResponse::serialize: the count, then offset and payload of each
\* message; the topic of a message is not written.
ConsumeResponse(messages) == [messages |-> messages]
RECURSIVE write_messages(_, _)
write_messages(messages, i) ==
    IF i > Len(messages) THEN << >>
    ELSE write_uint64_to_buffer(messages[i].offset)
             \o write_string_to_buffer(messages[i].payload, FALSE)
             \o write_messages(messages, i + 1)
ConsumeResponse_serialize(res) ==
    write_uint32_to_buffer(Len(res.messages)) \o write_messages(res.messages, 1)

\* The loop of ConsumeResponse::deserialize: left messages to read from
\* offset on, msgs read so far; every message gets topic_name_context.
RECURSIVE read_messages_from_buffer(_, _, _, _, _)
read_messages_from_buffer(data, offset, left, topic_name_context, msgs) ==
    IF left = 0 THEN [err |-> "", offset |-> offset, messages |-> msgs]
    ELSE IF ~in_buffer(data, offset, U64)
    THEN [err |-> bad_read(data), offset |-> offset, messages |-> msgs]
    ELSE LET payload == read_string_from_buffer(data, offset + U64, FALSE)
         IN  IF payload.err # ""
             THEN [err |-> payload.err, offset |-> offset, messages |-> msgs]
             ELSE read_messages_from_buffer(
                      data, payload.offset, left - 1, topic_name_context,
                      Append(msgs, Message(read_uint64_from_buffer(data, offset),
                                           topic_name_context, payload.str)))

ConsumeResponse_deserialize(data, topic_name_context) ==
    IF ~in_buffer(data, 0, U32) THEN Failed(bad_read(data))
    ELSE LET num_messages == read_uint32_from_buffer(data, 0)
             r == read_messages_from_buffer(data, U32, num_messages,
                                            topic_name_context, << >>)
         IN  IF r.err # "" THEN Failed(r.err)
             ELSE IF num_messages > 0 /\ r.offset # Len(data) THEN Failed(NotConsumed)
             ELSE Decoded(ConsumeResponse(r.messages))

\* ErrorResponsePayload::serialize / deserialize
ErrorResponsePayload(error_message) == [error_message |-> error_message]
ErrorResponsePayload_serialize(e) == write_string_to_buffer(e.error_message, FALSE)
ErrorResponsePayload_deserialize(data) ==
    LET msg == read_string_from_buffer(data, 0, FALSE)
    IN  IF msg.err # "" THEN Failed(msg.err)
        ELSE IF msg.offset # Len(data) THEN Failed(NotConsumed)
        ELSE Decoded(ErrorResponsePayload(msg.str))

\* ------------------------------------------------------------------ state
VARIABLES
    dirs,                 \* topic directories under data_directory
    data_log,             \* data.log of each topic, as bytes
    index_idx,            \* index.idx of each topic, as bytes
    metadata_meta,        \* metadata.meta of each topic, as bytes
    running,              \* the server process is up
    topics_,              \* EventQueue::topics_ (names with a Topic object)
    next_offset_,         \* Topic::next_offset_
    offset_to_byte_pos_,  \* Topic::offset_to_byte_pos_
    pc,                   \* position of each worker inside produce
    new_msg,              \* produce's local Message awaiting notification
    topic_subscriptions_, \* SubscriptionManager::topic_subscriptions_
    posted,               \* tasks handed to boost::asio::post, in call order
    appended,             \* history: per topic, (offset, payload) of each returned append
    notified,             \* history: per topic, offsets passed to on_new_message
    written,              \* history: per topic, the records completely written to data.log
    sub_hist,             \* history: the latest subscribe call of each (topic, id)
    swept,                \* history: per id, the notification counts when its latest
                          \* unsubscribe_all returned (NotSwept once it subscribes again)
    lastStop,             \* history: how the process last went down
    preStop,              \* history: consume / next offset of each topic at the last stop
    listed,               \* history: what list_topics returned at the last stop
    nAppends, nRestarts, nSubOps, nUnsubs, nFaults,
    received,             \* deliveries handed to a subscriber's callback, in call order
    done,                 \* the positions of `posted` whose task has run
    catchup,              \* catch-up tasks posted to the session's strand, oldest first
    io_threads,           \* the I/O threads that are inside io_context::run
    ws_state,             \* the WebSocket session: "open" until do_close, then "closed"
    tcp_state,            \* the TCP session: "read_header", "read_payload", "producing",
                          \* "write", or ended: "eof", "write_error", "down"
    tcp_request,          \* the frame whose header was read and is being served
    tcp_pending,          \* the response handed to async_write, not yet completed
    tcp_out,              \* the responses written to the socket, in order
    tcp_log,              \* history: the frames whose header the session has read
    codec_value,          \* the struct handed to serialize (with its kind)
    codec_stage,          \* "none", "value", "wire" after serialize, "decoded"
    codec_buffer,         \* the bytes serialize returned
    codec_result,         \* what deserialize returned for codec_buffer
    main_pc,              \* where main() of the server is
    config,               \* the protocol servers enabled in the configuration
    servers,              \* the protocol servers main() has constructed
    failed,               \* history: the parts whose initialization failed
    g_shutdown_requested, \* the shutdown flag
    signalled,            \* SIGINT or SIGTERM was delivered
    exit_code,            \* what main() returned (NoExit while it runs)
    failed_writers,       \* per topic, the writers (data, index) whose stream has failed
    rejected,             \* history: the produce requests rejected by validation
    creates,              \* history: the create_topic calls and their results
    pending,              \* per worker, the call that missed the first lookup of
                          \* get_or_create_topic
    returned,             \* what the latest consume, get_next_topic_offset or
                          \* list_topics call gave its caller
    constructed           \* per topic, the Topic objects constructed for the name since
                          \* the process started

disk == <<dirs, data_log, index_idx, metadata_meta>>
topicMem == <<topics_, next_offset_, offset_to_byte_pos_>>
workers == <<pc, new_msg>>
subs == <<topic_subscriptions_, posted, sub_hist, swept>>
hist == <<appended, notified, written, lastStop, preStop, listed>>
counters == <<nAppends, nRestarts, nSubOps, nUnsubs, nFaults>>
session == <<received, done, catchup, io_threads>>
calls == <<rejected, creates, pending, returned>>
wsock == <<ws_state>>
codec == <<codec_value, codec_stage, codec_buffer, codec_result>>
tcp == <<tcp_state, tcp_request, tcp_pending, tcp_out, tcp_log>>
process == <<main_pc, config, servers, failed, g_shutdown_requested, signalled, exit_code>>
adapters == <<wsock, tcp, codec, process>>
ext == <<session, adapters, failed_writers, calls, constructed>>
vars == <<ext, disk, running, topicMem, workers, subs, hist, counters>>

NoPending == [topic |-> "", op |-> "", payload |-> << >>]
NoReturn == [op |-> "", messages |-> << >>, offset |-> 0, names |-> {}]
NoMsg == [offset |-> 0, topic |-> "", payload |-> << >>]
NotSwept == << >>
NoSub == [start |-> 0, exec |-> "", posted_at |-> 0, notified_at |-> 0,
          appended_at |-> 0, live |-> FALSE]

\* -------------------------------------------------------------- Topic log
\* The bytes append_message writes to data.log for one record.
data_record(off, payload) == write_binary(off, U64) \o write_string(payload)

\* The bytes of one index.idx entry.
index_entry(off, pos) == write_binary(off, U64) \o write_binary(pos, U64)

\* load_metadata that never reads the file: every topic starts at offset 0.
load_metadata_unread(meta) == 0

\* Topic::load_metadata: next_offset_ read from the file; a missing (empty
\* here) or short file reads as 0.
load_metadata(meta) ==
    IF can_read(meta, 0, U64) THEN read_binary(meta, 0, U64) ELSE 0

\* Topic::save_metadata: the file is truncated and rewritten.
save_metadata(next) == write_binary(next, U64)

\* The metadata file after Topic::load_metadata (rewritten when unreadable).
metadata_after_load(meta) ==
    IF can_read(meta, 0, U64) THEN meta ELSE save_metadata(0)

\* Topic::load_index: pairs are read until EOF or the first short read.
RECURSIVE load_index_from(_, _, _)
load_index_from(f, p, m) ==
    IF p >= Len(f) THEN m
    ELSE IF ~can_read(f, p, 2 * U64) THEN m
    ELSE load_index_from(f, p + 2 * U64,
                         MapPut(m, read_binary(f, p, U64), read_binary(f, p + U64, U64)))

load_index(f) == load_index_from(f, 0, EmptyMap)

\* The scan loop of Topic::rebuild_index_if_needed over data.log f from byte
\* p: m is the in-memory index, idx the index file, highest is
\* highest_recovered_offset, next is next_offset_ as loaded.
RECURSIVE scan_data_log(_, _, _, _, _, _)
scan_data_log(f, p, m, idx, highest, next) ==
    LET out == [map |-> m, index |-> idx, highest |-> highest]
    IN  IF p >= Len(f) THEN out
        ELSE IF ~can_read(f, p, U64 + U32) THEN out
        ELSE LET msg_offset == read_binary(f, p, U64)
                 payload_len == read_binary(f, p + U64, U32)
                 missing == msg_offset \notin DOMAIN m /\ msg_offset < next
             IN  IF payload_len > MaxStringLen THEN out
                 ELSE scan_data_log(f, p + U64 + U32 + payload_len,
                                    IF missing THEN MapPut(m, msg_offset, p) ELSE m,
                                    IF missing THEN idx \o index_entry(msg_offset, p) ELSE idx,
                                    Max2(highest, msg_offset), next)

\* The needs_rebuild decision of Topic::rebuild_index_if_needed.
needs_rebuild(next, m, data) ==
    /\ next > 0
    /\ (DOMAIN m = {} \/ SetMax(DOMAIN m) < next - 1)
    /\ Len(data) > 0

\* Topic::rebuild_index_if_needed: the topic state after the recovery step.
rebuild_index_if_needed(next, m, data, idx, meta) ==
    IF ~needs_rebuild(next, m, data)
    THEN [next_offset |-> next, map |-> m, index |-> idx, meta |-> meta]
    ELSE LET r == scan_data_log(data, 0, m,
                                IF DOMAIN m = {} THEN << >> ELSE idx,
                                IF DOMAIN m = {} THEN 0 ELSE SetMax(DOMAIN m),
                                next)
             new_next_offset ==
                 IF DOMAIN r.map # {} THEN SetMax(DOMAIN r.map) + 1
                 ELSE IF Len(data) = 0 THEN 0
                 ELSE IF next = 0 /\ r.highest = 0 /\ DOMAIN r.map = {} THEN 0
                 ELSE r.highest + 1
         IN  [next_offset |-> new_next_offset, map |-> r.map, index |-> r.index,
              meta |-> IF new_next_offset # next THEN save_metadata(new_next_offset)
                       ELSE meta]

\* Topic::load_or_create_files (the Topic constructor): load_metadata,
\* load_index, open the writers, rebuild_index_if_needed.
load_or_create_files(data, idx, meta) ==
    rebuild_index_if_needed(load_metadata(meta), load_index(idx), data, idx,
                            metadata_after_load(meta))

\* The read loop of Topic::get_messages: cur is current_read_offset, p the
\* reader position, msgs the records accumulated so far.
RECURSIVE read_loop(_, _, _, _, _, _, _, _)
read_loop(t, f, m, next, max, cur, p, msgs) ==
    IF ~(Len(msgs) < max /\ cur < next) THEN msgs
    ELSE IF p >= Len(f) THEN msgs
    ELSE IF ~(can_read(f, p, U64) /\ can_read_string(f, p + U64)) THEN msgs
    ELSE IF read_binary(f, p, U64) # cur THEN msgs
    ELSE LET payload == read_string(f, p + U64)
             after == p + U64 + U32 + Len(payload)
             seek == /\ cur + 1 \in DOMAIN m
                     /\ m[cur + 1] # after
                     /\ cur + 1 < next
         IN  read_loop(t, f, m, next, max, cur + 1,
                       IF seek THEN m[cur + 1] ELSE after,
                       Append(msgs, Message(cur, t, payload)))

\* A get_messages that returns nothing when the loop stopped before the
\* limit and before next_offset_.
read_messages_all_or_nothing(t, f, m, next, start_offset, max_messages) ==
    LET keys == {k \in DOMAIN m : k >= start_offset}
        msgs == read_loop(t, f, m, next, max_messages, SetMin(keys), m[SetMin(keys)], << >>)
    IN  IF start_offset >= next \/ max_messages = 0 THEN << >>
        ELSE IF keys = {} THEN << >>
        ELSE IF Len(msgs) < max_messages /\ SetMin(keys) + Len(msgs) < next THEN << >>
        ELSE msgs

\* A get_messages that starts at the first record of the index whatever
\* start_offset is.
read_messages_from_first(t, f, m, next, start_offset, max_messages) ==
    IF start_offset >= next \/ max_messages = 0 THEN << >>
    ELSE IF DOMAIN m = {} THEN << >>
    ELSE read_loop(t, f, m, next, max_messages, SetMin(DOMAIN m), m[SetMin(DOMAIN m)], << >>)

\* The body of Topic::get_messages over data.log f, the in-memory index m
\* and next_offset_ next.
read_messages(t, f, m, next, start_offset, max_messages) ==
    LET keys == {k \in DOMAIN m : k >= start_offset}
    IN  IF start_offset >= next \/ max_messages = 0 THEN << >>
        ELSE IF keys = {} THEN << >>
        ELSE read_loop(t, f, m, next, max_messages, SetMin(keys), m[SetMin(keys)], << >>)

\* Topic::get_messages
get_messages(t, start_offset, max_messages) ==
    read_messages(t, data_log[t], offset_to_byte_pos_[t], next_offset_[t],
                  start_offset, max_messages)

\* Topic::get_next_offset
get_next_offset(t) == next_offset_[t]

\* ------------------------------------------------------ EventQueue facade
\* EventQueue::consume
consume(t, start_offset, max_messages) ==
    IF t \notin topics_ THEN << >> ELSE get_messages(t, start_offset, max_messages)

\* A get_next_topic_offset that has no answer for an unknown topic.
get_next_topic_offset_known(t) == IF t \notin topics_ THEN -1 ELSE get_next_offset(t)

\* EventQueue::get_next_topic_offset
get_next_topic_offset(t) == IF t \notin topics_ THEN 0 ELSE get_next_offset(t)

\* EventQueue::list_topics
list_topics == topics_

\* std::map::operator[] on the index: a key that is absent is inserted with
\* a value-initialized position.
map_subscript(m, k) == MapPut_if_absent(m, k, 0)

\* A lookup of the next offset's position that does not ask count() first.
index_lookup_unguarded(m, k) == map_subscript(m, k)

\* The index after the read loop of get_messages looked up the position of
\* offset k: operator[] is reached only when count(k) is not zero.
index_lookup(m, k) == IF k \in DOMAIN m THEN map_subscript(m, k) ELSE m

\* The index after get_messages returned msgs: one lookup of the following
\* offset for each record read.
RECURSIVE index_after_read(_, _)
index_after_read(m, msgs) ==
    IF msgs = << >> THEN m
    ELSE index_after_read(index_lookup(m, Head(msgs).offset + 1), Tail(msgs))

\* What a read call leaves alone whatever it returns.
read_frame ==
    UNCHANGED <<disk, running, topics_, next_offset_, workers, subs, hist, counters,
                session, adapters, failed_writers, rejected, creates, pending,
                constructed>>

\* A call of EventQueue::consume: an empty topic name throws, a name that
\* topics_.find does not find returns nothing, else Topic::get_messages.
consume_call(topic_name, start_offset, max_messages) ==
    /\ running
    /\ IF topic_name = ""
       THEN /\ returned' = [NoReturn EXCEPT !.op = "invalid_argument"]
            /\ UNCHANGED offset_to_byte_pos_
       ELSE /\ returned' = [NoReturn EXCEPT !.op = "consume",
                                !.messages = consume(topic_name, start_offset,
                                                     max_messages)]
            /\ offset_to_byte_pos_' =
                   IF topic_name \notin topics_ THEN offset_to_byte_pos_
                   ELSE [offset_to_byte_pos_ EXCEPT ![topic_name] =
                            index_after_read(@, get_messages(topic_name, start_offset,
                                                             max_messages))]
    /\ read_frame

\* A call of EventQueue::get_next_topic_offset.
get_next_topic_offset_call(topic_name) ==
    /\ running
    /\ returned' = IF topic_name = "" THEN [NoReturn EXCEPT !.op = "invalid_argument"]
                   ELSE [NoReturn EXCEPT !.op = "get_next_topic_offset",
                                          !.offset = get_next_topic_offset(topic_name)]
    /\ UNCHANGED offset_to_byte_pos_
    /\ read_frame

\* A call of EventQueue::list_topics.
list_topics_call ==
    /\ running
    /\ returned' = [NoReturn EXCEPT !.op = "list_topics", !.names = list_topics]
    /\ UNCHANGED offset_to_byte_pos_
    /\ read_frame

\* consume(T, 0, unbounded): max_messages at the largest value the model holds.
NoLimit == Huge
consume_all(t) == consume(t, 0, NoLimit)

\* ------------------------------------------------------------------- Init
NoValue == [kind |-> "", x |-> << >>, context |-> ""]
NoResult == [err |-> "", value |-> << >>]

\* The sessions of the adapters before any request.
NoFrame == [type |-> 0, payload_length |-> 0, payload |-> << >>]
NoResponse == [type |-> 0, status |-> 0, payload |-> << >>]

InitSessions ==
    /\ ws_state = "open"
    /\ tcp_state = "read_header"
    /\ tcp_request = NoFrame /\ tcp_pending = NoResponse
    /\ tcp_out = << >> /\ tcp_log = << >>

\* No struct is being converted.
InitCodecIdle ==
    /\ codec_value = NoValue /\ codec_stage = "none"
    /\ codec_buffer = << >> /\ codec_result = NoResult

\* main() has not returned.
NoExit == -1

\* The protocol servers main() can start.
Protocols == {"tcp", "http", "ws"}

\* main() of a server that is up with every protocol enabled.
InitServing ==
    /\ main_pc = "serving"
    /\ config = Protocols /\ servers = Protocols
    /\ failed = {}
    /\ g_shutdown_requested = FALSE /\ signalled = FALSE
    /\ exit_code = NoExit

InitAdapters == InitSessions /\ InitCodecIdle /\ InitServing

\* The event queue, the subscription registry and the workers of a server
\* started on an empty data directory.
InitQueueState(up) ==
    /\ dirs = {}
    /\ data_log = [t \in Topics |-> << >>]
    /\ index_idx = [t \in Topics |-> << >>]
    /\ metadata_meta = [t \in Topics |-> << >>]
    /\ running = up
    /\ topics_ = {}
    /\ next_offset_ = [t \in Topics |-> 0]
    /\ offset_to_byte_pos_ = [t \in Topics |-> EmptyMap]
    /\ pc = [w \in Workers |-> "idle"]
    /\ new_msg = [w \in Workers |-> NoMsg]
    /\ topic_subscriptions_ = << >>
    /\ posted = << >>
    /\ appended = [t \in Topics |-> << >>]
    /\ notified = [t \in Topics |-> << >>]
    /\ written = [t \in Topics |-> << >>]
    /\ sub_hist = [t \in Topics |-> [s \in SubIds |-> NoSub]]
    /\ swept = [s \in SubIds |-> NotSwept]
    /\ lastStop = [kind |-> "none", topic |-> "", stage |-> "", bytes |-> 0, complete |-> FALSE]
    /\ preStop = [t \in Topics |-> [records |-> << >>, next |-> 0]]
    /\ listed = {}
    /\ nAppends = 0 /\ nRestarts = 0 /\ nSubOps = 0 /\ nUnsubs = 0 /\ nFaults = 0
    /\ received = << >> /\ done = {} /\ catchup = << >>
    /\ io_threads = IF up THEN ThreadPoolSize ELSE 0
    /\ failed_writers = [t \in Topics |-> {}]
    /\ rejected = << >> /\ creates = << >> /\ returned = NoReturn
    /\ pending = [w \in Workers |-> NoPending]
    /\ constructed = [t \in Topics |-> 0]

InitQueue == InitQueueState(TRUE)

\* A server started on an empty data directory: no topic, no subscriber.
Init == InitQueue /\ InitAdapters

\* ---------------------------------------------------------- topic registry
\* A get_or_create_topic that constructs a new, empty Topic on every call.
get_or_create_topic_anew(t) == load_or_create_files(<< >>, << >>, << >>)

\* The Topic object EventQueue::get_or_create_topic returns for t: the
\* registered one, or one constructed over the topic directory.
get_or_create_topic(t) ==
    IF t \in topics_
    THEN [next_offset |-> next_offset_[t], map |-> offset_to_byte_pos_[t],
          index |-> index_idx[t], meta |-> metadata_meta[t]]
    ELSE load_or_create_files(data_log[t], index_idx[t], metadata_meta[t])

\* The number of Topic objects constructed per name once get_or_create_topic
\* has returned for t.
construct(t) == [constructed EXCEPT ![t] = IF t \in topics_ THEN @ ELSE @ + 1]

\* What EventQueue::create_topic does to the registry and the files.
create_topic_effect(t) ==
    /\ running
    /\ LET st == get_or_create_topic(t)
       IN  /\ dirs' = dirs \cup {t}
           /\ index_idx' = [index_idx EXCEPT ![t] = st.index]
           /\ metadata_meta' = [metadata_meta EXCEPT ![t] = st.meta]
           /\ topics_' = topics_ \cup {t}
           /\ next_offset_' = [next_offset_ EXCEPT ![t] = st.next_offset]
           /\ offset_to_byte_pos_' = [offset_to_byte_pos_ EXCEPT ![t] = st.map]
           /\ constructed' = construct(t)
    /\ UNCHANGED <<data_log, running, workers, subs, hist, counters, session,
                   failed_writers>>

\* EventQueue::create_topic of a topic that is not registered.
create_topic(t) ==
    /\ t \notin topics_
    /\ create_topic_effect(t)
    /\ UNCHANGED <<calls, adapters>>

\* EventQueue::create_topic of any topic, registered or not, with the result
\* the caller gets.
create_topic_call(t) ==
    /\ Len(creates) < MaxCreates
    /\ create_topic_effect(t)
    /\ creates' = Append(creates, [topic |-> t, existed |-> t \in topics_,
                                 next_offset |-> get_next_topic_offset(t), result |-> TRUE])
    /\ UNCHANGED <<rejected, pending, returned, adapters>>

\* append_message that does not advance next_offset_.
append_message_no_advance(st, data, payload) ==
    [offset |-> st.next_offset,
     data |-> data \o data_record(st.next_offset, payload),
     index |-> st.index \o index_entry(st.next_offset, Len(data)),
     map |-> MapPut(st.map, st.next_offset, Len(data)),
     next_offset |-> st.next_offset,
     meta |-> save_metadata(st.next_offset)]

\* append_message that takes the writer position after writing the record.
append_message_pos_after(st, data, payload) ==
    LET after == Len(data \o data_record(st.next_offset, payload))
    IN  [offset |-> st.next_offset,
         data |-> data \o data_record(st.next_offset, payload),
         index |-> st.index \o index_entry(st.next_offset, after),
         map |-> MapPut(st.map, st.next_offset, after),
         next_offset |-> st.next_offset + 1,
         meta |-> save_metadata(st.next_offset + 1)]

\* Topic::append_message on topic state st with data.log contents data.
append_message(st, data, payload) ==
    LET current_offset == st.next_offset
        current_byte_pos == Len(data)
    IN  [offset |-> current_offset,
         data |-> data \o data_record(current_offset, payload),
         index |-> st.index \o index_entry(current_offset, current_byte_pos),
         map |-> MapPut(st.map, current_offset, current_byte_pos),
         next_offset |-> current_offset + 1,
         meta |-> save_metadata(current_offset + 1)]

\* The files of a topic after its first append_message, starting from an
\* empty topic directory.
append_message_files(payload) ==
    append_message(load_or_create_files(<< >>, << >>, << >>), << >>, payload)

\* A server started on a data directory an earlier run left behind: topic
\* SeedTopic holds one record, written by a produce of that run.
SeedTopic == "a"
SeedPayload == <<7>>

InitSeeded ==
    LET files == append_message_files(SeedPayload)
        st == load_or_create_files(files.data, files.index, files.meta)
        only(x, empty) == [t \in Topics |-> IF t = SeedTopic THEN x ELSE empty]
    IN  /\ dirs = {SeedTopic}
        /\ data_log = only(files.data, << >>)
        /\ index_idx = only(st.index, << >>)
        /\ metadata_meta = only(st.meta, << >>)
        /\ running = TRUE
        /\ topics_ = {SeedTopic}
        /\ next_offset_ = only(st.next_offset, 0)
        /\ offset_to_byte_pos_ = only(st.map, EmptyMap)
        /\ pc = [w \in Workers |-> "idle"]
        /\ new_msg = [w \in Workers |-> NoMsg]
        /\ topic_subscriptions_ = << >>
        /\ posted = << >>
        /\ appended = only(<<[offset |-> 0, payload |-> SeedPayload]>>, << >>)
        /\ notified = only(<<0>>, << >>)
        /\ written = only(<<[offset |-> 0, payload |-> SeedPayload]>>, << >>)
        /\ sub_hist = [t \in Topics |-> [s \in SubIds |-> NoSub]]
        /\ swept = [s \in SubIds |-> NotSwept]
        /\ lastStop = [kind |-> "clean", topic |-> "", stage |-> "", bytes |-> 0,
                       complete |-> FALSE]
        /\ preStop = only([records |-> <<Message(0, SeedTopic, SeedPayload)>>, next |-> 1],
                          [records |-> << >>, next |-> 0])
        /\ listed = {SeedTopic}
        /\ nAppends = 0 /\ nRestarts = 0 /\ nSubOps = 0 /\ nUnsubs = 0 /\ nFaults = 0
        /\ received = << >> /\ done = {} /\ catchup = << >>
        /\ io_threads = ThreadPoolSize
        /\ InitAdapters
        /\ failed_writers = [t \in Topics |-> {}]
        /\ rejected = << >> /\ creates = << >> /\ returned = NoReturn
        /\ pending = [w \in Workers |-> NoPending]
        /\ constructed = only(1, 0)

\* The files of a topic after its first n appends (at most two), and the
\* payload of each.
SeedPayloads == <<SeedPayload, <<9, 9>>>>

RECURSIVE appended_files(_)
appended_files(n) ==
    IF n = 0 THEN [data |-> << >>, index |-> << >>, meta |-> save_metadata(0)]
    ELSE LET f == appended_files(n - 1)
             r == append_message(load_or_create_files(f.data, f.index, f.meta), f.data,
                                 SeedPayloads[n])
         IN  [data |-> r.data, index |-> r.index, meta |-> r.meta]

\* A data directory earlier runs left behind, with the server down: topic
\* SeedTopic holds up to two records. Earlier appends were interrupted or
\* had writes that failed, so data.log may lack its last byte, index.idx
\* may end anywhere (inside an entry too) and metadata.meta may be absent
\* or hold an older next_offset.
InitLeftBehind ==
    \E n \in 0 .. Len(SeedPayloads), cut \in 0 .. 1,
       index_kept \in 0 .. 2 * U64 * Len(SeedPayloads), saved \in -1 .. Len(SeedPayloads) :
        LET files == appended_files(n)
            only(x, empty) == [t \in Topics |-> IF t = SeedTopic THEN x ELSE empty]
        IN  /\ cut <= Len(files.data)
            /\ index_kept <= Len(files.index)
            /\ saved <= n
            /\ dirs = {SeedTopic}
            /\ data_log = only(Prefix(files.data, Len(files.data) - cut), << >>)
            /\ index_idx = only(Prefix(files.index, index_kept), << >>)
            /\ metadata_meta = only(IF saved = -1 THEN << >> ELSE save_metadata(saved), << >>)
            /\ running = FALSE
            /\ topics_ = {}
            /\ next_offset_ = [t \in Topics |-> 0]
            /\ offset_to_byte_pos_ = [t \in Topics |-> EmptyMap]
            /\ pc = [w \in Workers |-> "idle"]
            /\ new_msg = [w \in Workers |-> NoMsg]
            /\ topic_subscriptions_ = << >>
            /\ posted = << >>
            /\ appended = [t \in Topics |-> << >>]
            /\ notified = [t \in Topics |-> << >>]
            /\ written = [t \in Topics |-> << >>]
            /\ sub_hist = [t \in Topics |-> [s \in SubIds |-> NoSub]]
            /\ swept = [s \in SubIds |-> NotSwept]
            /\ lastStop = [kind |-> "none", topic |-> "", stage |-> "", bytes |-> 0,
                           complete |-> FALSE]
            /\ preStop = [t \in Topics |-> [records |-> << >>, next |-> 0]]
            /\ listed = {SeedTopic}
            /\ nAppends = 0 /\ nRestarts = 0 /\ nSubOps = 0 /\ nUnsubs = 0 /\ nFaults = 0
            /\ received = << >> /\ done = {} /\ catchup = << >>
            /\ io_threads = 0
            /\ InitAdapters
            /\ failed_writers = [t \in Topics |-> {}]
            /\ rejected = << >> /\ creates = << >> /\ returned = NoReturn
            /\ pending = [w \in Workers |-> NoPending]
            /\ constructed = [t \in Topics |-> 0]

\* EventQueue::produce from get_or_create_topic to the return of
\* append_message, by worker w.
produce_append(w, t, payload) ==
    /\ nAppends < MaxAppends
    /\ failed_writers[t] = {}
    /\ LET r == append_message(get_or_create_topic(t), data_log[t], payload)
       IN  /\ dirs' = dirs \cup {t}
           /\ data_log' = [data_log EXCEPT ![t] = r.data]
           /\ index_idx' = [index_idx EXCEPT ![t] = r.index]
           /\ metadata_meta' = [metadata_meta EXCEPT ![t] = r.meta]
           /\ topics_' = topics_ \cup {t}
           /\ next_offset_' = [next_offset_ EXCEPT ![t] = r.next_offset]
           /\ offset_to_byte_pos_' = [offset_to_byte_pos_ EXCEPT ![t] = r.map]
           /\ constructed' = construct(t)
           /\ new_msg' = [new_msg EXCEPT ![w] = Message(r.offset, t, payload)]
           /\ appended' = [appended EXCEPT ![t] =
                              Append(@, [offset |-> r.offset, payload |-> payload])]
           /\ written' = [written EXCEPT ![t] =
                              Append(@, [offset |-> r.offset, payload |-> payload])]
    /\ pc' = [pc EXCEPT ![w] = "notify"]
    /\ nAppends' = nAppends + 1
    /\ UNCHANGED <<running, subs, notified, lastStop, preStop, listed, nRestarts, nSubOps,
                   nUnsubs, nFaults, session, failed_writers>>

\* A validation that lets every request through.
valid_request_any(topic_name, payload) == TRUE

\* The validation at the head of EventQueue::produce.
valid_request(topic_name, payload) == topic_name # "" /\ payload # << >>

\* EventQueue::produce up to the return of append_message: the request is
\* validated, the topic obtained or created and the record appended under
\* the topic lock.
ProduceAppend(w, t, payload) ==
    /\ running
    /\ pc[w] = "idle"
    /\ valid_request(t, payload)
    /\ produce_append(w, t, payload)
    /\ UNCHANGED <<calls, adapters>>

\* EventQueue::produce rejecting an invalid request: nothing has been
\* touched when the validation throws.
ProduceRejected(w, topic_name, payload) ==
    /\ running
    /\ pc[w] = "idle"
    /\ ~valid_request(topic_name, payload)
    /\ Len(rejected) < MaxRejects
    /\ rejected' = Append(rejected, [topic |-> topic_name, payload |-> payload])
    /\ UNCHANGED <<disk, running, topicMem, workers, subs, hist, counters, session,
                   adapters, failed_writers, creates, pending, returned, constructed>>

\* A second lookup that never finds the topic.
double_check_blind(t) == FALSE

\* The second lookup of get_or_create_topic, under the registry lock again.
double_check(t) == t \in topics_

\* EventQueue::get_or_create_topic, first block: the lookup under the
\* registry lock finds no topic t and the lock is released. op is the call
\* the worker is in (produce or create_topic).
LookupMiss(w, t, op, payload) ==
    /\ running
    /\ pc[w] = "idle"
    /\ t \notin topics_
    /\ op = "produce" => valid_request(t, payload) /\ nAppends < MaxAppends
    /\ op = "create_topic" => payload = << >>
    /\ pending' = [pending EXCEPT ![w] = [topic |-> t, op |-> op, payload |-> payload]]
    /\ pc' = [pc EXCEPT ![w] = "create"]
    /\ UNCHANGED <<disk, running, topicMem, new_msg, subs, hist, counters, session,
                   adapters, failed_writers, rejected, creates, returned, constructed>>

\* EventQueue::get_or_create_topic, second block: the lock is taken again,
\* the lookup repeated, and a Topic is constructed and registered only when
\* the name is still missing. create_topic returns here.
CreateAfterMiss(w) ==
    /\ running
    /\ pc[w] = "create"
    /\ LET t == pending[w].topic
           st == load_or_create_files(data_log[t], index_idx[t], metadata_meta[t])
       IN  IF double_check(t)
           THEN UNCHANGED <<disk, topicMem, constructed>>
           ELSE /\ dirs' = dirs \cup {t}
                /\ index_idx' = [index_idx EXCEPT ![t] = st.index]
                /\ metadata_meta' = [metadata_meta EXCEPT ![t] = st.meta]
                /\ topics_' = topics_ \cup {t}
                /\ next_offset_' = [next_offset_ EXCEPT ![t] = st.next_offset]
                /\ offset_to_byte_pos_' = [offset_to_byte_pos_ EXCEPT ![t] = st.map]
                /\ constructed' = [constructed EXCEPT ![t] = @ + 1]
                /\ UNCHANGED data_log
    /\ IF pending[w].op = "produce"
       THEN pc' = [pc EXCEPT ![w] = "append"] /\ UNCHANGED pending
       ELSE pc' = [pc EXCEPT ![w] = "idle"] /\ pending' = [pending EXCEPT ![w] = NoPending]
    /\ UNCHANGED <<running, new_msg, subs, hist, counters, session, adapters, failed_writers,
                   rejected, creates, returned>>

\* EventQueue::produce after get_or_create_topic returned on the slow path:
\* append_message on the registered topic.
AppendPending(w) ==
    /\ running
    /\ pc[w] = "append"
    /\ produce_append(w, pending[w].topic, pending[w].payload)
    /\ pending' = [pending EXCEPT ![w] = NoPending]
    /\ UNCHANGED <<rejected, creates, returned, adapters>>

\* ---------------------------------------------------- SubscriptionManager
SubscriberInfo(id, start, exec) ==
    [subscriber_id |-> id, next_offset_needed |-> start, client_executor |-> exec]

\* The subscribers of topic t (empty when the topic has no entry).
subscribers_of(ts, t) == IF t \in DOMAIN ts THEN ts[t] ELSE << >>

\* ts with the subscriber map of topic t replaced by m.
with_topic(ts, t, m) == [x \in DOMAIN ts \cup {t} |-> IF x = t THEN m ELSE ts[x]]

\* ts without the topics whose subscriber map is empty.
drop_empty(ts) == [x \in {y \in DOMAIN ts : DOMAIN ts[y] # {}} |-> ts[x]]

\* An erase that removes nothing.
erase_nothing(m, id) == m

\* m without key id.
erase(m, id) == [x \in DOMAIN m \ {id} |-> m[x]]

\* SubscriptionManager::subscribe: what the call does to the registry.
subscribe_call(t, id, start_offset, exec) ==
    /\ running
    /\ nSubOps < MaxSubOps
    /\ topic_subscriptions_' =
           with_topic(topic_subscriptions_, t,
                      MapPut(subscribers_of(topic_subscriptions_, t), id,
                             SubscriberInfo(id, start_offset, exec)))
    /\ sub_hist' = [sub_hist EXCEPT ![t][id] =
                       [start |-> start_offset, exec |-> exec,
                        posted_at |-> Len(posted), notified_at |-> Len(notified[t]),
                        appended_at |-> Len(appended[t]),
                        live |-> TRUE]]
    /\ swept' = [swept EXCEPT ![id] = NotSwept]
    /\ nSubOps' = nSubOps + 1
    /\ UNCHANGED <<disk, running, topicMem, workers, posted, hist,
                   nAppends, nRestarts, nUnsubs, nFaults>>

\* SubscriptionManager::subscribe called on its own.
subscribe(t, id, start_offset, exec) ==
    /\ subscribe_call(t, id, start_offset, exec)
    /\ UNCHANGED ext

\* SubscriptionManager::unsubscribe
unsubscribe(t, id) ==
    /\ running
    /\ nUnsubs < MaxUnsubs
    /\ topic_subscriptions_' =
           IF t \in DOMAIN topic_subscriptions_ /\ id \in DOMAIN topic_subscriptions_[t]
           THEN drop_empty(with_topic(topic_subscriptions_, t,
                                      erase(topic_subscriptions_[t], id)))
           ELSE topic_subscriptions_
    /\ sub_hist' = [sub_hist EXCEPT ![t][id].live = FALSE]
    /\ nUnsubs' = nUnsubs + 1
    /\ UNCHANGED <<disk, running, topicMem, workers, posted, swept, hist,
                   nAppends, nRestarts, nSubOps, nFaults, ext>>

\* SubscriptionManager::unsubscribe_all
unsubscribe_all_call(id) ==
    /\ running
    /\ nUnsubs < MaxUnsubs
    /\ topic_subscriptions_' =
           drop_empty([t \in DOMAIN topic_subscriptions_ |->
                          erase(topic_subscriptions_[t], id)])
    /\ sub_hist' = [t \in Topics |-> [sub_hist[t] EXCEPT ![id].live = FALSE]]
    /\ swept' = [swept EXCEPT ![id] = [t \in Topics |-> Len(notified[t])]]
    /\ nUnsubs' = nUnsubs + 1
    /\ UNCHANGED <<disk, running, topicMem, workers, posted, hist,
                   nAppends, nRestarts, nSubOps, nFaults>>

\* SubscriptionManager::unsubscribe_all called on its own.
unsubscribe_all(id) ==
    /\ unsubscribe_all_call(id)
    /\ UNCHANGED ext

\* A dispatch that ignores the cursors: every subscriber of the topic.
matching_every(subscribers, message) == DOMAIN subscribers

\* The subscribers on_new_message dispatches message to.
matching(subscribers, message) ==
    {id \in DOMAIN subscribers : message.offset >= subscribers[id].next_offset_needed}

\* The tasks on_new_message posts for message, in the iteration order of the
\* subscriber map, from the i-th subscriber id on.
RECURSIVE post_tasks(_, _, _)
post_tasks(subscribers, i, message) ==
    IF i > Len(SubIdOrder) THEN << >>
    ELSE LET id == SubIdOrder[i]
         IN  (IF id \in matching(subscribers, message)
              THEN <<[executor |-> subscribers[id].client_executor,
                      subscriber_id |-> subscribers[id].subscriber_id,
                      topic |-> message.topic,
                      messages_batch |-> <<message>>]>>
              ELSE << >>)
             \o post_tasks(subscribers, i + 1, message)

\* A dispatch that leaves the cursor on the record just delivered.
on_new_message_stale(ts, message) ==
    IF message.topic \notin DOMAIN ts THEN ts
    ELSE LET subscribers == ts[message.topic]
         IN  with_topic(ts, message.topic,
                 [id \in DOMAIN subscribers |->
                     IF id \in matching(subscribers, message)
                     THEN [subscribers[id] EXCEPT !.next_offset_needed = message.offset]
                     ELSE subscribers[id]])

\* A dispatch that sets the cursor of every subscriber of the topic to the
\* offset after the record, whether the record was posted to it or not.
on_new_message_rewinding(ts, message) ==
    IF message.topic \notin DOMAIN ts THEN ts
    ELSE LET subscribers == ts[message.topic]
         IN  with_topic(ts, message.topic,
                 [id \in DOMAIN subscribers |->
                     [subscribers[id] EXCEPT !.next_offset_needed = message.offset + 1]])

\* SubscriptionManager::on_new_message: the registry after the dispatch.
on_new_message(ts, message) ==
    IF message.topic \notin DOMAIN ts THEN ts
    ELSE LET subscribers == ts[message.topic]
         IN  with_topic(ts, message.topic,
                 [id \in DOMAIN subscribers |->
                     IF id \in matching(subscribers, message)
                     THEN [subscribers[id] EXCEPT !.next_offset_needed = message.offset + 1]
                     ELSE subscribers[id]])

\* What a delivery callback is handed when a task runs.
delivery(task, how) ==
    [subscriber_id |-> task.subscriber_id, topic |-> task.topic,
     messages |-> task.messages_batch, how |-> how]

\* deliveries of a sequence of tasks that run one after the other.
deliveries(tasks, how) == [i \in 1 .. Len(tasks) |-> delivery(tasks[i], how)]

\* A submission that runs the tasks at once, in the calling thread.
run_inline(tasks) == [queued |-> << >>, ran |-> tasks]

\* boost::asio::post: the tasks are queued on their executors; none is run
\* in the calling thread before post returns.
post(tasks) == [queued |-> tasks, ran |-> << >>]

\* EventQueue::produce after append_message returned: the listeners are
\* notified of the new record and produce returns its offset.
ProduceNotify(w) ==
    /\ running
    /\ pc[w] = "notify"
    /\ topic_subscriptions_' = on_new_message(topic_subscriptions_, new_msg[w])
    /\ LET r == post(post_tasks(subscribers_of(topic_subscriptions_, new_msg[w].topic),
                                1, new_msg[w]))
       IN  /\ posted' = posted \o r.queued
           /\ received' = received \o deliveries(r.ran, "inline")
    /\ notified' = [notified EXCEPT ![new_msg[w].topic] = Append(@, new_msg[w].offset)]
    /\ pc' = [pc EXCEPT ![w] = "idle"]
    /\ new_msg' = [new_msg EXCEPT ![w] = NoMsg]
    /\ UNCHANGED <<disk, running, topicMem, sub_hist, swept, appended, written,
                   lastStop, preStop, listed, counters, done, catchup, io_threads,
                   adapters, failed_writers, calls,
                   constructed>>

\* The subscriber ids the loop of on_new_message visits before position k of
\* the map's iteration order.
visited_before(k) == {SubIdOrder[i] : i \in 1 .. k - 1}

\* SubscriptionManager::on_new_message when boost::asio::post throws for the
\* subscriber at position k: the loop has no handler, so the exception
\* leaves it there; the subscribers before k have their cursor advanced,
\* the one at k and those after it are left as they were.
on_new_message_throwing(ts, message, k) ==
    IF message.topic \notin DOMAIN ts THEN ts
    ELSE LET subscribers == ts[message.topic]
         IN  with_topic(ts, message.topic,
                 [id \in DOMAIN subscribers |->
                     IF id \in matching(subscribers, message) \cap visited_before(k)
                     THEN [subscribers[id] EXCEPT !.next_offset_needed = message.offset + 1]
                     ELSE subscribers[id]])

\* The tasks posted before the post for position k threw.
post_tasks_throwing(subscribers, message, k) ==
    SelectSeq(post_tasks(subscribers, 1, message),
              LAMBDA task : task.subscriber_id \in visited_before(k))

\* EventQueue::produce after append_message returned, when the post for the
\* matching subscriber at position k throws (std::bad_alloc, say): the
\* exception leaves on_new_message, produce catches it, logs and returns the
\* offset.
ProduceNotifyPostThrows(w, k) ==
    /\ running
    /\ pc[w] = "notify"
    /\ nFaults < MaxFaults
    /\ SubIdOrder[k] \in matching(subscribers_of(topic_subscriptions_, new_msg[w].topic),
                                  new_msg[w])
    /\ topic_subscriptions_' = on_new_message_throwing(topic_subscriptions_, new_msg[w], k)
    /\ posted' = posted \o post_tasks_throwing(subscribers_of(topic_subscriptions_,
                                                               new_msg[w].topic),
                                               new_msg[w], k)
    /\ notified' = [notified EXCEPT ![new_msg[w].topic] = Append(@, new_msg[w].offset)]
    /\ pc' = [pc EXCEPT ![w] = "idle"]
    /\ new_msg' = [new_msg EXCEPT ![w] = NoMsg]
    /\ nFaults' = nFaults + 1
    /\ UNCHANGED <<disk, running, topicMem, sub_hist, swept, appended, written,
                   lastStop, preStop, listed, nAppends, nRestarts, nSubOps, nUnsubs, ext>>

\* ------------------------------------------------------- process lifetime
\* What consume(T, 0, unbounded) and get_next_topic_offset(T) return.
observed == [t \in Topics |-> [records |-> consume_all(t), next |-> get_next_topic_offset(t)]]

\* The process is gone: every object in memory is destroyed.
ProcessDown ==
    /\ running' = FALSE
    /\ topics_' = {}
    /\ next_offset_' = [t \in Topics |-> 0]
    /\ offset_to_byte_pos_' = [t \in Topics |-> EmptyMap]
    /\ pc' = [w \in Workers |-> "idle"]
    /\ new_msg' = [w \in Workers |-> NoMsg]
    /\ topic_subscriptions_' = << >>
    /\ posted' = << >>
    /\ sub_hist' = [t \in Topics |-> [s \in SubIds |-> NoSub]]
    /\ swept' = [s \in SubIds |-> NotSwept]
    /\ received' = << >>
    /\ done' = {}
    /\ catchup' = << >>
    /\ io_threads' = 0
    /\ ws_state' = "open"
    /\ tcp_state' = "down"
    /\ tcp_request' = NoFrame /\ tcp_pending' = NoResponse
    /\ UNCHANGED <<tcp_out, codec>>
    /\ failed_writers' = [t \in Topics |-> {}]
    /\ rejected' = << >>
    /\ creates' = << >>
    /\ returned' = NoReturn
    /\ pending' = [w \in Workers |-> NoPending]
    /\ constructed' = [x \in Topics |-> 0]
    /\ preStop' = observed

\* The EventQueue and the SubscriptionManager are destroyed on the way out of
\* main(): the files stay as they are.
destroy_event_queue ==
    /\ ProcessDown
    /\ lastStop' = [kind |-> "clean", topic |-> "", stage |-> "", bytes |-> 0, complete |-> FALSE]
    /\ listed' = list_topics
    /\ UNCHANGED <<disk, appended, notified, written, counters, tcp_log>>

\* Clean shutdown (main joins the I/O threads; ~EventQueue and ~Topic close
\* the writers): no handler is running, the files are left as they are.
Stop ==
    /\ running
    /\ \A w \in Workers : pc[w] = "idle"
    /\ nRestarts < MaxRestarts
    /\ destroy_event_queue
    /\ UNCHANGED process

\* EventQueue::load_existing_topics with only the directories that hold a
\* non-empty data log.
load_existing_topics_with_data == {t \in dirs : data_log[t] # << >>}

\* The topics EventQueue::load_existing_topics registers: one per directory
\* under the base directory (the files of a topic can always be opened here,
\* so no Topic constructor throws).
load_existing_topics == dirs

\* The EventQueue constructor: load_existing_topics constructs a Topic over
\* every directory of the data directory.
EventQueue_ctor ==
    /\ ~running
    /\ running' = TRUE
    /\ LET st == [t \in Topics |->
                     load_or_create_files(data_log[t], index_idx[t], metadata_meta[t])]
       IN  /\ topics_' = load_existing_topics
           /\ index_idx' = [t \in Topics |-> IF t \in load_existing_topics THEN st[t].index ELSE index_idx[t]]
           /\ metadata_meta' = [t \in Topics |->
                                   IF t \in load_existing_topics THEN st[t].meta ELSE metadata_meta[t]]
           /\ next_offset_' = [t \in Topics |-> IF t \in load_existing_topics THEN st[t].next_offset ELSE 0]
           /\ offset_to_byte_pos_' = [t \in Topics |->
                                         IF t \in load_existing_topics THEN st[t].map ELSE EmptyMap]
    /\ constructed' = [t \in Topics |-> IF t \in load_existing_topics THEN 1 ELSE 0]
    /\ io_threads' = ThreadPoolSize
    /\ nRestarts' = nRestarts + 1
    /\ UNCHANGED <<dirs, data_log, workers, subs, hist, nAppends, nSubOps, nUnsubs, nFaults,
                   received, done, catchup, failed_writers, calls>>

\* The server process starts over the data directory.
Start == EventQueue_ctor /\ UNCHANGED adapters

\* ------------------------------------------------------ WebSocketSession
\* The executor handle_subscribe_topic_request registers for the session.
SessionExecutor == "e1"

\* The largest batch the catch-up consume asks for.
CatchUpBatch == 100

\* WebSocketSession::handle_subscribe_topic_request: the subscription is
\* registered under the subscriber id of the request, then the catch-up is
\* posted to the session's strand.
handle_subscribe_topic_request(t, id, start_offset) ==
    /\ ws_state = "open"
    /\ subscribe_call(t, id, start_offset, SessionExecutor)
    /\ catchup' = Append(catchup, [topic |-> t, subscriber_id |-> id,
                                   start_offset |-> start_offset])
    /\ UNCHANGED <<received, done, io_threads, adapters, failed_writers, calls, constructed>>

\* handle_subscribe_topic_request of the session whose strand is given, on
\* a server with several sessions: the subscriber id is the one the client
\* wrote into the request, the executor and the callback are the session's.
handle_subscribe_topic_request_on(strand, t, id, start_offset) ==
    /\ subscribe_call(t, id, start_offset, strand)
    /\ catchup' = Append(catchup, [topic |-> t, subscriber_id |-> id,
                                   start_offset |-> start_offset])
    /\ UNCHANGED <<received, done, io_threads, adapters, failed_writers, calls, constructed>>

\* WebSocketSession::handle_unsubscribe_topic_request of the session whose
\* strand is given: the registry is asked to drop the subscriber id of the
\* request; nothing of the calling session enters the call.
handle_unsubscribe_topic_request_on(strand, t, id) == unsubscribe(t, id)

\* The catch-up task of handle_subscribe_topic_request runs on the strand:
\* one consume from start_offset, delivered when it is not empty.
run_catch_up ==
    /\ running
    /\ io_threads > 0
    /\ catchup # << >>
    /\ LET c == Head(catchup)
           initial_messages == consume(c.topic, c.start_offset, CatchUpBatch)
       IN  received' = IF initial_messages = << >> THEN received
                       ELSE Append(received,
                                   [subscriber_id |-> c.subscriber_id, topic |-> c.topic,
                                    messages |-> initial_messages, how |-> "catchup"])
    /\ catchup' = Tail(catchup)
    /\ UNCHANGED <<disk, running, topicMem, workers, subs, hist, counters, done,
                   io_threads, adapters, failed_writers, calls, constructed>>

\* A task posted by on_new_message runs on its executor: the delivery
\* callback is called with the one-element batch.
run_posted_task(i) ==
    /\ running
    /\ io_threads > 0
    /\ i \in (1 .. Len(posted)) \ done
    /\ received' = Append(received, delivery(posted[i], "push"))
    /\ done' = done \cup {i}
    /\ UNCHANGED <<disk, running, topicMem, workers, subs, hist, counters, catchup,
                   io_threads, adapters, failed_writers, calls, constructed>>

\* A task posted by on_new_message runs and its delivery callback throws a
\* std::exception: the posted lambda has no handler, the exception leaves
\* io_context::run, and the thread's function in main catches it, logs it
\* and returns, so that thread serves no further task.
run_posted_task_throws(i) ==
    /\ running
    /\ io_threads > 0
    /\ nFaults < MaxFaults
    /\ i \in (1 .. Len(posted)) \ done
    /\ done' = done \cup {i}
    /\ io_threads' = io_threads - 1
    /\ nFaults' = nFaults + 1
    /\ UNCHANGED <<disk, running, topicMem, workers, subs, hist, nAppends, nRestarts,
                   nSubOps, nUnsubs, received, catchup, adapters, failed_writers, calls,
                   constructed>>

\* The id generate_session_id gave the session. It is generated by the
\* server and never sent to the client; a client's subscriber_id may or may
\* not coincide with it.
session_id_ == SubIdOrder[2]

\* WebSocketSession::do_close, called from on_accept, on_read and on_write
\* on a close by the client, a read or write error, or a binary message.
\* is_open is what ws_.is_open() returns at that moment: unsubscribe_all is
\* called, with session_id_, only when it is true.
do_close(is_open) ==
    /\ running
    /\ ws_state = "open"
    /\ IF is_open
       THEN unsubscribe_all_call(session_id_)
       ELSE UNCHANGED <<disk, running, topicMem, workers, subs, hist, counters>>
    /\ ws_state' = "closed"
    /\ UNCHANGED <<session, tcp, codec, process, failed_writers, calls, constructed>>

\* The subscribers the registry holds, over all topics.
registered ==
    UNION {DOMAIN topic_subscriptions_[t] : t \in DOMAIN topic_subscriptions_}

\* ------------------------------------------------------------ TcpSession
\* The topic a name on the wire stands for, and the bytes of a topic name.
name_of(bytes) ==
    CASE bytes = << >> -> "" [] bytes = <<97>> -> "a" [] bytes = <<98>> -> "b"
      [] OTHER -> "other"
chars(name) == CASE name = "a" -> <<97>> [] name = "b" -> <<98>> [] OTHER -> << >>

\* A request frame: the header fields and the payload bytes that follow it.
Frame(type, payload) == [type |-> type, payload_length |-> Len(payload), payload |-> payload]

\* A command type that is no request.
UnknownCommand == 9

\* The frames a client sends: well-formed requests, requests the queue
\* rejects, malformed payloads, an unknown command, and a header that
\* announces more than MAX_PAYLOAD_SIZE bytes.
TcpFrames ==
    {Frame(PRODUCE_REQUEST, ProduceRequest_serialize(ProduceRequest(t, p))) :
         t \in {<< >>, <<97>>}, p \in {<< >>, <<7>>}}
    \cup {Frame(PRODUCE_REQUEST, b) : b \in {<< >>, <<0>>, <<0, 1>>, <<0, 0, 0, 0, 0, 0, 7>>}}
    \cup {Frame(CONSUME_REQUEST, ConsumeRequest_serialize(ConsumeRequest(t, 0, CatchUpBatch))) :
              t \in {<< >>, <<97>>}}
    \cup {Frame(CONSUME_REQUEST, << >>), Frame(CONSUME_REQUEST, <<0, 1, 97>>)}
    \cup {Frame(GET_TOPIC_OFFSET_REQUEST, write_string_to_buffer(<<97>>, TRUE)),
          Frame(CREATE_TOPIC_REQUEST, write_string_to_buffer(<<98>>, TRUE)),
          Frame(LIST_TOPICS_REQUEST, << >>),
          Frame(UnknownCommand, << >>),
          [type |-> PRODUCE_REQUEST, payload_length |-> MAX_PAYLOAD_SIZE + 1,
           payload |-> << >>]}

\* The worker thread that serves the connection.
TcpWorker == "w1"

\* What send_response hands to async_write.
Response(type, status, payload) == [type |-> type, status |-> status, payload |-> payload]

\* TcpSession::send_error_response
error_response(status, error_message) ==
    Response(ERROR_RESPONSE, status, ErrorResponsePayload(error_message))

\* The catch clauses of handle_request for a std::runtime_error with text e.
runtime_error_response(e) ==
    IF e \in {NotConsumed, Exceeds, TooLarge}
    THEN error_response(ERROR_SERIALIZATION, e)
    ELSE error_response(ERROR_INTERNAL_SERVER, e)

EmptyTopic == "Topic name cannot be empty."

\* The loop of the LIST_TOPICS_REQUEST case over the names, in the order of
\* the std::map ("a" before "b").
write_topic_names(names) ==
    (IF "a" \in names THEN write_string_to_buffer(chars("a"), TRUE) ELSE << >>)
    \o (IF "b" \in names THEN write_string_to_buffer(chars("b"), TRUE) ELSE << >>)
EmptyProduce == "Topic name and payload cannot be empty."

\* What the switch of TcpSession::handle_request comes to for a frame:
\* "respond" with a response, "produce" or "create_topic" on the queue, or a
\* read outside the payload buffer (err is bad_read's value).
request_outcome(frame) ==
    LET data == frame.payload
        respond(r) == [kind |-> "respond", response |-> r, err |-> "", topic |-> "",
                       payload |-> << >>]
        outside(e) == [kind |-> "bad_read", response |-> NoResponse, err |-> e,
                       topic |-> "", payload |-> << >>]
        thrown(e) == IF e \in {"null_read", "read_past_end"} THEN outside(e)
                     ELSE respond(runtime_error_response(e))
    IN  CASE frame.type = PRODUCE_REQUEST ->
                 LET req == ProduceRequest_deserialize(data)
                 IN  IF req.err # "" THEN thrown(req.err)
                     ELSE IF ~valid_request(name_of(req.value.topic_name),
                                            req.value.message_payload)
                     THEN respond(error_response(ERROR_INVALID_REQUEST, EmptyProduce))
                     ELSE [kind |-> "produce", response |-> NoResponse, err |-> "",
                           topic |-> name_of(req.value.topic_name),
                           payload |-> req.value.message_payload]
          [] frame.type = CONSUME_REQUEST ->
                 LET req == ConsumeRequest_deserialize(data)
                 IN  IF req.err # "" THEN thrown(req.err)
                     ELSE IF req.value.topic_name = << >>
                     THEN respond(error_response(ERROR_INVALID_REQUEST, EmptyTopic))
                     ELSE respond(Response(CONSUME_RESPONSE, SUCCESS,
                              ConsumeResponse_serialize(ConsumeResponse(
                                  consume(name_of(req.value.topic_name),
                                          req.value.start_offset,
                                          req.value.max_messages)))))
          [] frame.type = GET_TOPIC_OFFSET_REQUEST ->
                 LET topic_name == read_string_from_buffer(data, 0, TRUE)
                 IN  IF topic_name.err # "" THEN thrown(topic_name.err)
                     ELSE IF topic_name.str = << >>
                     THEN respond(error_response(ERROR_INVALID_REQUEST, EmptyTopic))
                     ELSE respond(Response(GET_TOPIC_OFFSET_RESPONSE, SUCCESS,
                              write_uint64_to_buffer(
                                  get_next_topic_offset(name_of(topic_name.str)))))
          [] frame.type = CREATE_TOPIC_REQUEST ->
                 LET topic_name == read_string_from_buffer(data, 0, TRUE)
                 IN  IF topic_name.err # "" THEN thrown(topic_name.err)
                     ELSE [kind |-> "create_topic", response |-> NoResponse, err |-> "",
                           topic |-> name_of(topic_name.str), payload |-> << >>]
          [] frame.type = LIST_TOPICS_REQUEST ->
                 respond(Response(LIST_TOPICS_RESPONSE, SUCCESS,
                     write_uint32_to_buffer(Cardinality(list_topics))
                     \o write_topic_names(list_topics)))
          [] OTHER ->
                 respond(error_response(ERROR_UNKNOWN_COMMAND, "Unknown command type."))

\* The process is killed by a signal inside a handler (SIGSEGV): nothing is
\* written, the files stay as they are.
killed_in_handler ==
    /\ ProcessDown
    /\ lastStop' = [kind |-> "segv", topic |-> "", stage |-> "", bytes |-> 0,
                    complete |-> FALSE]
    /\ listed' = list_topics
    /\ UNCHANGED <<disk, appended, notified, written, counters, process>>

\* TcpSession::handle_request for the frame, up to the call of send_response
\* (or, for a produce, up to the return of append_message). past_end is what
\* a read past the end of the payload buffer comes to in this run: the bytes
\* read are garbage and the bound check throws, or the read faults.
handle_request(frame, past_end) ==
    LET out == request_outcome(frame)
    IN  CASE out.kind = "respond" ->
                 /\ tcp_pending' = out.response
                 /\ tcp_state' = "write"
                 /\ tcp_request' = NoFrame
                 /\ UNCHANGED <<disk, running, topicMem, workers, subs, hist, counters,
                                session, wsock, process, tcp_out, codec, failed_writers, calls,
                                constructed>>
          [] out.kind = "produce" ->
                 /\ pc[TcpWorker] = "idle"
                 /\ produce_append(TcpWorker, out.topic, out.payload)
                 /\ tcp_pending' = Response(PRODUCE_RESPONSE, SUCCESS,
                        ProduceResponse_serialize(ProduceResponse(
                            new_msg'[TcpWorker].offset)))
                 /\ tcp_state' = "producing"
                 /\ tcp_request' = NoFrame
                 /\ UNCHANGED <<wsock, process, tcp_out, codec, calls>>
          [] out.kind = "create_topic" ->
                 /\ create_topic_effect(out.topic)
                 /\ tcp_pending' = Response(CREATE_TOPIC_RESPONSE, SUCCESS, << >>)
                 /\ tcp_state' = "write"
                 /\ tcp_request' = NoFrame
                 /\ UNCHANGED <<wsock, process, tcp_out, codec, calls>>
          [] out.kind = "bad_read" ->
                 IF out.err = "null_read" \/ past_end = "fault"
                 THEN killed_in_handler
                 ELSE /\ tcp_pending' = runtime_error_response(
                                            IF frame.type = CONSUME_REQUEST
                                            THEN NotConsumed ELSE Exceeds)
                      /\ tcp_state' = "write"
                      /\ tcp_request' = NoFrame
                      /\ UNCHANGED <<disk, running, topicMem, workers, subs, hist,
                                     counters, session, wsock, process, tcp_out, codec,
                                     failed_writers, calls, constructed>>

\* The completion handler of async_read in TcpSession::do_read_header, for a
\* header that was read whole.
do_read_header(frame, past_end) ==
    /\ running
    /\ tcp_state = "read_header"
    /\ Len(tcp_log) < MaxFrames
    /\ tcp_log' = Append(tcp_log, frame)
    /\ IF frame.payload_length > MAX_PAYLOAD_SIZE
       THEN /\ tcp_pending' = error_response(ERROR_PAYLOAD_TOO_LARGE,
                                             "Request payload too large.")
            /\ tcp_state' = "write"
            /\ UNCHANGED <<disk, running, topicMem, workers, subs, hist, counters,
                           session, wsock, process, tcp_request, tcp_out, codec, failed_writers,
                           calls, constructed>>
       ELSE IF frame.payload_length = 0
       THEN handle_request(frame, past_end)
       ELSE /\ tcp_state' = "read_payload"
            /\ tcp_request' = frame
            /\ UNCHANGED <<disk, running, topicMem, workers, subs, hist, counters,
                           session, wsock, process, tcp_pending, tcp_out, codec, failed_writers,
                           calls, constructed>>

\* The completion handlers of the two async_read calls with an error code
\* (the client closed the connection, or the read failed): the session ends.
tcp_read_error ==
    /\ running
    /\ tcp_state \in {"read_header", "read_payload"}
    /\ tcp_state' = "eof"
    /\ tcp_request' = NoFrame
    /\ UNCHANGED <<disk, running, topicMem, workers, subs, hist, counters, session,
                   wsock, process, tcp_pending, tcp_out, tcp_log, codec, failed_writers, calls,
                   constructed>>

\* The completion handler of async_read in TcpSession::do_read_payload.
do_read_payload(past_end) ==
    /\ running
    /\ tcp_state = "read_payload"
    /\ handle_request(tcp_request, past_end)
    /\ UNCHANGED tcp_log

\* EventQueue::produce has returned to handle_request (the listeners were
\* notified): send_response is called with the offset.
produce_returned ==
    /\ running
    /\ tcp_state = "producing"
    /\ pc[TcpWorker] = "idle"
    /\ tcp_state' = "write"
    /\ UNCHANGED <<disk, running, topicMem, workers, subs, hist, counters, session,
                   wsock, process, tcp_request, tcp_pending, tcp_out, tcp_log, codec,
                   failed_writers, calls, constructed>>

\* The completion handler of async_write in TcpSession::send_response.
\* send_response gives async_write buffers over header_bytes and payload,
\* which are destroyed when send_response and its caller return: the bytes
\* sent are the response when the write completed at once ("sent"), and
\* whatever the freed memory holds when it was deferred ("garbled"). With
\* an error code the session ends; otherwise do_read_header is called.
write_completed(how) ==
    /\ running
    /\ tcp_state = "write"
    /\ tcp_state' = IF how = "error" THEN "write_error" ELSE "read_header"
    /\ tcp_out' = IF how = "error" THEN tcp_out
                  ELSE Append(tcp_out, [response |-> tcp_pending, intact |-> how = "sent"])
    /\ tcp_pending' = NoResponse
    /\ UNCHANGED <<disk, running, topicMem, workers, subs, hist, counters, session,
                   wsock, process, tcp_request, tcp_log, codec, failed_writers, calls,
                   constructed>>

TcpStep ==
    \/ \E frame \in TcpFrames, past_end \in {"throws", "fault"} :
           do_read_header(frame, past_end)
    \/ \E past_end \in {"throws", "fault"} : do_read_payload(past_end)
    \/ tcp_read_error
    \/ produce_returned
    \/ \E how \in {"sent", "garbled", "error"} : write_completed(how)

NextTcp == TcpStep \/ \E w \in Workers : ProduceNotify(w)
SpecTcp == Init /\ [][NextTcp]_vars

\* The last request header the session read.
last_header == tcp_log[Len(tcp_log)]
oversized(frame) == frame.payload_length > MAX_PAYLOAD_SIZE

\* C22: a header that announces more than MAX_PAYLOAD_SIZE bytes is answered
\* with ERROR_PAYLOAD_TOO_LARGE, and it is the last header the session
\* reads: the session never waits for a request header again.
C22_OversizedEndsSession ==
    /\ [][(tcp_log' # tcp_log /\ oversized(tcp_log'[Len(tcp_log')]))
            => tcp_pending' = error_response(ERROR_PAYLOAD_TOO_LARGE,
                                             "Request payload too large.")]_vars
    /\ []((tcp_log # << >> /\ oversized(last_header)) => tcp_state # "read_header")

\* The requests that fail validation or parsing: an empty topic or payload,
\* a payload that is not the request's encoding, an unknown command.
failing(frame) ==
    /\ ~oversized(frame)
    /\ LET out == request_outcome(frame)
       IN  \/ out.kind = "bad_read"
           \/ out.kind = "respond" /\ out.response.type = ERROR_RESPONSE

\* handle_request has run for the last header read.
handled == tcp_log # << >> /\ tcp_state \notin {"read_header", "read_payload"}

\* C23: a request that fails validation or parsing is answered with one
\* error response and does not end the session: handle_request leaves an
\* ERROR_RESPONSE to be written, and once it is written the session waits
\* for the next request header, one response sent per request.
C23_FailedRequestNotFatal ==
    /\ []((handled /\ failing(last_header) /\ tcp_state # "write_error")
            => (tcp_state = "write" /\ tcp_pending.type = ERROR_RESPONSE))
    /\ [][(tcp_state = "write" /\ tcp_out' # tcp_out)
            => (tcp_state' = "read_header" /\ Len(tcp_out') = Len(tcp_log)
                /\ tcp_out'[Len(tcp_out')].response = tcp_pending)]_vars

\* ------------------------------------------------------------------ main
\* What main() leaves alone until it returns.
served == <<disk, running, topicMem, workers, subs, hist, counters, session, wsock,
            tcp, codec, failed_writers, calls, constructed>>

\* The try block of main() around po::store and po::notify, and --help.
parse_command_line(outcome) ==
    /\ main_pc = "parse"
    /\ main_pc' = IF outcome = "ok" THEN "init_queue" ELSE "exited"
    /\ exit_code' = CASE outcome = "error" -> 1 [] outcome = "help" -> 0 [] OTHER -> exit_code
    /\ failed' = IF outcome = "error" THEN failed \cup {"options"} ELSE failed
    /\ UNCHANGED <<config, servers, g_shutdown_requested, signalled, served>>

\* The try block of main() around make_unique<EventQueue>, then the
\* SubscriptionManager, the I/O threads and the signal set. The constructor
\* throws when the base directory cannot be created or is no directory.
init_event_queue(base_dir_ok) ==
    /\ main_pc = "init_queue"
    /\ IF base_dir_ok
       THEN /\ EventQueue_ctor
            /\ main_pc' = "init_tcp"
            /\ UNCHANGED <<config, servers, failed, g_shutdown_requested, signalled,
                           exit_code, wsock, tcp, codec>>
       ELSE /\ main_pc' = "exited"
            /\ exit_code' = 1
            /\ failed' = failed \cup {"event_queue"}
            /\ UNCHANGED <<config, servers, g_shutdown_requested, signalled, served>>

\* The handler of signals.async_wait.
signal_received ==
    /\ main_pc \in {"init_tcp", "init_http", "init_ws", "serving", "joining"}
    /\ ~signalled
    /\ signalled' = TRUE
    /\ g_shutdown_requested' = TRUE
    /\ UNCHANGED <<main_pc, config, servers, failed, exit_code, served>>

\* The order in which the try block of main() sets the servers up.
after(p) == CASE p = "tcp" -> "init_http" [] p = "http" -> "init_ws" [] OTHER -> "serving"

\* One if statement of the try block that constructs and starts the protocol
\* servers. A constructor that throws (the port cannot be bound) leaves the
\* block through the catch clause, which requests the shutdown; start() or
\* run() returning false is logged and the block goes on.
init_server(p, outcome) ==
    /\ main_pc = "init_" \o p
    /\ IF p \notin config
       THEN /\ main_pc' = after(p)
            /\ UNCHANGED <<servers, failed, g_shutdown_requested>>
       ELSE CASE outcome = "ok" ->
                     /\ servers' = servers \cup {p}
                     /\ main_pc' = after(p)
                     /\ UNCHANGED <<failed, g_shutdown_requested>>
              [] outcome = "not_started" ->
                     /\ p # "tcp"
                     /\ main_pc' = after(p)
                     /\ UNCHANGED <<servers, failed, g_shutdown_requested>>
              [] OTHER ->
                     /\ failed' = failed \cup {p}
                     /\ g_shutdown_requested' = TRUE
                     /\ main_pc' = "serving"
                     /\ UNCHANGED servers
    /\ UNCHANGED <<config, signalled, exit_code, served>>

\* The main loop sees the flag; ws_server->stop() and http_server->stop() are
\* called (the TCP server has no stop), the work guard is released.
shutdown_requested ==
    /\ main_pc = "serving"
    /\ g_shutdown_requested
    /\ main_pc' = "joining"
    /\ servers' = servers \cap {"tcp"}
    /\ UNCHANGED <<config, failed, g_shutdown_requested, signalled, exit_code, served>>

\* The joins of the I/O threads return once io_context::run has no work
\* left: the wait of the signal set has completed and no acceptor is left
\* with an accept outstanding. main() then returns 0.
threads_joined ==
    /\ main_pc = "joining"
    /\ signalled
    /\ servers = {}
    /\ main_pc' = "exited"
    /\ exit_code' = 0
    /\ destroy_event_queue
    /\ UNCHANGED <<config, servers, failed, g_shutdown_requested, signalled>>

\* main() is entered with some configuration, over an empty data directory.
InitMain ==
    /\ InitQueueState(FALSE) /\ InitSessions /\ InitCodecIdle
    /\ main_pc = "parse"
    /\ config \in SUBSET Protocols
    /\ servers = {} /\ failed = {}
    /\ g_shutdown_requested = FALSE /\ signalled = FALSE
    /\ exit_code = NoExit

NextMain ==
    \/ \E outcome \in {"ok", "error", "help"} : parse_command_line(outcome)
    \/ \E base_dir_ok \in BOOLEAN : init_event_queue(base_dir_ok)
    \/ \E p \in Protocols, outcome \in {"ok", "not_started", "throws"} : init_server(p, outcome)
    \/ signal_received
    \/ shutdown_requested
    \/ threads_joined
SpecMain == InitMain /\ [][NextMain]_vars

\* main() under a scheduler that lets the main thread and the I/O threads
\* run: every step of main() that can be taken is taken eventually (the
\* initialization, the main loop seeing the flag after its 100 ms sleep, the
\* joins returning once io_context::run has returned in every thread).
FairMain ==
    /\ WF_vars(\E outcome \in {"ok", "error", "help"} : parse_command_line(outcome))
    /\ WF_vars(\E base_dir_ok \in BOOLEAN : init_event_queue(base_dir_ok))
    /\ WF_vars(\E p \in Protocols, outcome \in {"ok", "not_started", "throws"} :
                  init_server(p, outcome))
    /\ WF_vars(shutdown_requested)
    /\ WF_vars(threads_joined)
SpecMainLive == SpecMain /\ FairMain

\* C26: main() returns 1 whenever an initialization failed (the event queue
\* could not be constructed, or constructing or starting an enabled protocol
\* server threw) and returns 0 only when nothing failed.
C26_ExitCode ==
    (exit_code # NoExit) => (exit_code = 1 <=> failed # {})

\* ------------------------------------------------- codec round trips
\* The structs converted, each with its kind and, for ConsumeResponse, the
\* topic_name_context its deserialize is given.
Value(kind, x) == [kind |-> kind, x |-> x, context |-> ""]

CodecTypes == {PRODUCE_REQUEST, CONSUME_RESPONSE, ERROR_RESPONSE}
CodecLengths == {0, 258, MAX_PAYLOAD_SIZE}
CodecStrings == {<< >>, <<97>>, <<97, 98>>}
CodecOffsets == {0, 1, 258, 16909060}
CodecBatches ==
    {<< >>,
     <<Message(0, "a", <<7>>)>>,
     <<Message(0, "a", <<7>>), Message(1, "a", <<9, 9>>)>>,
     <<Message(258, "a", << >>), Message(259, "b", <<7>>)>>}

CodecValues ==
    {Value("RequestHeader", RequestHeader(t, n)) : t \in CodecTypes, n \in CodecLengths}
    \cup {Value("ResponseHeader", ResponseHeader(t, st, n)) :
              t \in CodecTypes, st \in {SUCCESS, ERROR_PAYLOAD_TOO_LARGE},
              n \in CodecLengths}
    \cup {Value("ProduceRequest", ProduceRequest(t, p)) :
              t \in CodecStrings, p \in RequestPayloads}
    \cup {Value("ProduceResponse", ProduceResponse(o)) : o \in CodecOffsets}
    \cup {Value("ConsumeRequest", ConsumeRequest(t, o, n)) :
              t \in CodecStrings, o \in CodecOffsets, n \in {0, CatchUpBatch}}
    \cup {[kind |-> "ConsumeResponse", x |-> ConsumeResponse(b), context |-> c] :
              b \in CodecBatches, c \in Topics}
    \cup {Value("ErrorResponsePayload", ErrorResponsePayload(m)) : m \in CodecStrings}

\* serialize of the struct of each kind.
serialize(v) ==
    CASE v.kind = "RequestHeader" -> RequestHeader_serialize(v.x)
      [] v.kind = "ResponseHeader" -> ResponseHeader_serialize(v.x)
      [] v.kind = "ProduceRequest" -> ProduceRequest_serialize(v.x)
      [] v.kind = "ProduceResponse" -> ProduceResponse_serialize(v.x)
      [] v.kind = "ConsumeRequest" -> ConsumeRequest_serialize(v.x)
      [] v.kind = "ConsumeResponse" -> ConsumeResponse_serialize(v.x)
      [] v.kind = "ErrorResponsePayload" -> ErrorResponsePayload_serialize(v.x)

\* deserialize of the struct of each kind.
deserialize(kind, data, topic_name_context) ==
    CASE kind = "RequestHeader" -> Decoded(RequestHeader_deserialize(data))
      [] kind = "ResponseHeader" -> Decoded(ResponseHeader_deserialize(data))
      [] kind = "ProduceRequest" -> ProduceRequest_deserialize(data)
      [] kind = "ProduceResponse" -> ProduceResponse_deserialize(data)
      [] kind = "ConsumeRequest" -> ConsumeRequest_deserialize(data)
      [] kind = "ConsumeResponse" -> ConsumeResponse_deserialize(data, topic_name_context)
      [] kind = "ErrorResponsePayload" -> ErrorResponsePayload_deserialize(data)

\* A struct is about to be converted.
InitCodec ==
    /\ InitQueue /\ InitSessions /\ InitServing
    /\ codec_value \in CodecValues
    /\ codec_stage = "value"
    /\ codec_buffer = << >>
    /\ codec_result = NoResult

\* x.serialize()
codec_serialize ==
    /\ codec_stage = "value"
    /\ codec_buffer' = serialize(codec_value)
    /\ codec_stage' = "wire"
    /\ UNCHANGED <<disk, running, topicMem, workers, subs, hist, counters, session,
                   wsock, process, tcp, codec_value, codec_result, failed_writers, calls,
                   constructed>>

\* T::deserialize(buffer.data(), buffer.size())
codec_deserialize ==
    /\ codec_stage = "wire"
    /\ codec_result' = deserialize(codec_value.kind, codec_buffer, codec_value.context)
    /\ codec_stage' = "decoded"
    /\ UNCHANGED <<disk, running, topicMem, workers, subs, hist, counters, session,
                   wsock, process, tcp, codec_value, codec_buffer, failed_writers, calls,
                   constructed>>

NextCodec == codec_serialize \/ codec_deserialize
SpecCodec == InitCodec /\ [][NextCodec]_vars

\* ------------------------------------------------------------------ faults
Stages == {"data", "index", "meta"}

\* The files a crash inside append_message leaves behind: the writes before
\* `stage` are complete, the write of `stage` reached the file with its first
\* k bytes only, the later writes never happened.
interrupted_append(st, data, payload, stage, k) ==
    LET r == append_message(st, data, payload)
    IN  [data |-> IF stage = "data"
                  THEN data \o Prefix(data_record(r.offset, payload), k)
                  ELSE r.data,
         index |-> IF stage = "data" THEN st.index
                   ELSE IF stage = "index"
                   THEN st.index \o Prefix(index_entry(r.offset, Len(data)), k)
                   ELSE r.index,
         meta |-> IF stage = "meta" THEN Prefix(r.meta, k) ELSE st.meta,
         offset |-> r.offset]

\* The number of bytes the write of `stage` has in full.
stage_bytes(stage, payload) ==
    CASE stage = "data" -> U64 + U32 + Len(payload)
      [] stage = "index" -> 2 * U64
      [] OTHER -> U64

\* The process dies inside Topic::append_message.
CrashInAppend(w, t, payload, stage, k) ==
    /\ running
    /\ pc[w] = "idle"
    /\ nAppends < MaxAppends
    /\ nFaults < MaxFaults
    /\ nRestarts < MaxRestarts
    /\ k \in (IF stage = "meta" THEN 0 ELSE 1) .. stage_bytes(stage, payload)
    /\ LET r == interrupted_append(get_or_create_topic(t), data_log[t], payload, stage, k)
       IN  /\ dirs' = dirs \cup {t}
           /\ data_log' = [data_log EXCEPT ![t] = r.data]
           /\ index_idx' = [index_idx EXCEPT ![t] = r.index]
           /\ metadata_meta' = [metadata_meta EXCEPT ![t] = r.meta]
           /\ written' = IF stage = "data" /\ k < stage_bytes(stage, payload)
                         THEN written
                         ELSE [written EXCEPT ![t] =
                                  Append(@, [offset |-> r.offset, payload |-> payload])]
    /\ ProcessDown
    /\ lastStop' = [kind |-> "crash", topic |-> t, stage |-> stage, bytes |-> k,
                    complete |-> k = stage_bytes(stage, payload)]
    /\ nAppends' = nAppends + 1
    /\ nFaults' = nFaults + 1
    /\ listed' = list_topics \cup {t}
    /\ UNCHANGED <<appended, notified, nRestarts, nSubOps, nUnsubs, tcp_log, process>>

\* While the process is down, the last k bytes of data.log are removed,
\* cutting into the last record.
TruncateDataTail(t, k) ==
    /\ ~running
    /\ lastStop.kind = "clean"
    /\ nFaults < MaxFaults
    /\ written[t] # << >>
    /\ k \in 1 .. U64 + U32 + Len(written[t][Len(written[t])].payload) - 1
    /\ data_log' = [data_log EXCEPT ![t] = Prefix(@, Len(@) - k)]
    /\ written' = [written EXCEPT ![t] = Prefix(@, Len(@) - 1)]
    /\ lastStop' = [kind |-> "truncated", topic |-> t, stage |-> "data", bytes |-> k,
                    complete |-> FALSE]
    /\ nFaults' = nFaults + 1
    /\ UNCHANGED <<dirs, index_idx, metadata_meta, running, topicMem, workers, subs,
                   appended, notified, preStop, listed, nAppends, nRestarts, nSubOps, nUnsubs, ext>>

\* The largest value of a uint64_t, which std::streampos(-1) converts to.
NoPosition == Huge

\* Topic::append_message when the writes named in bad have no effect: the
\* stream of a failed write keeps its error state and does not throw, and
\* tellp() on a stream that had failed before (was_bad) returns -1.
append_message_failing(st, data, payload, bad, was_bad) ==
    LET current_offset == st.next_offset
        current_byte_pos == IF "data" \in was_bad THEN NoPosition ELSE Len(data)
    IN  [offset |-> current_offset,
         data |-> IF "data" \in bad THEN data
                  ELSE data \o data_record(current_offset, payload),
         index |-> IF "index" \in bad THEN st.index
                   ELSE st.index \o index_entry(current_offset, current_byte_pos),
         map |-> MapPut(st.map, current_offset, current_byte_pos),
         next_offset |-> current_offset + 1,
         meta |-> IF "meta" \in bad THEN << >> ELSE save_metadata(current_offset + 1)]

\* EventQueue::produce up to the return of append_message, when a write of
\* append_message fails (the disk is full, say): the write of `stage` fails
\* in this call, or the writer of `stage` failed in an earlier call.
ProduceAppendIoError(w, t, payload, stage) ==
    /\ running
    /\ pc[w] = "idle"
    /\ nAppends < MaxAppends
    /\ stage \in failed_writers[t] \/ nFaults < MaxFaults
    /\ LET bad == failed_writers[t] \cup {stage}
           r == append_message_failing(get_or_create_topic(t), data_log[t], payload,
                                       bad, failed_writers[t])
       IN  /\ dirs' = dirs \cup {t}
           /\ data_log' = [data_log EXCEPT ![t] = r.data]
           /\ index_idx' = [index_idx EXCEPT ![t] = r.index]
           /\ metadata_meta' = [metadata_meta EXCEPT ![t] = r.meta]
           /\ topics_' = topics_ \cup {t}
           /\ next_offset_' = [next_offset_ EXCEPT ![t] = r.next_offset]
           /\ offset_to_byte_pos_' = [offset_to_byte_pos_ EXCEPT ![t] = r.map]
           /\ constructed' = construct(t)
           /\ new_msg' = [new_msg EXCEPT ![w] = Message(r.offset, t, payload)]
           /\ appended' = [appended EXCEPT ![t] =
                              Append(@, [offset |-> r.offset, payload |-> payload])]
           /\ written' = IF "data" \in bad THEN written
                         ELSE [written EXCEPT ![t] =
                                  Append(@, [offset |-> r.offset, payload |-> payload])]
           /\ failed_writers' = [failed_writers EXCEPT ![t] = bad \ {"meta"}]
    /\ pc' = [pc EXCEPT ![w] = "notify"]
    /\ nAppends' = nAppends + 1
    /\ nFaults' = IF stage \in failed_writers[t] THEN nFaults ELSE nFaults + 1
    /\ UNCHANGED <<running, subs, notified, lastStop, preStop, listed, nRestarts, nSubOps,
                   nUnsubs, session, adapters, calls>>

IoStep ==
    \E w \in Workers, t \in Topics, p \in Payloads, stage \in Stages :
        ProduceAppendIoError(w, t, p, stage)

\* ---------------------------------------------------------- specifications
ProduceStep ==
    \/ \E w \in Workers, t \in Topics, p \in RequestPayloads : ProduceAppend(w, t, p)
    \/ \E w \in Workers : ProduceNotify(w)

LifeStep ==
    \/ \E t \in Topics : create_topic(t)
    \/ Stop
    \/ Start

SubStep ==
    \/ \E t \in Topics, id \in SubIds, k \in StartOffsets, e \in Executors :
           subscribe(t, id, k, e)
    \/ \E t \in Topics, id \in SubIds : unsubscribe(t, id)
    \/ \E id \in SubIds : unsubscribe_all(id)

\* The topics the session's requests name.
SessionTopics == {SeedTopic}

FacadeStep ==
    \/ \E w \in Workers, t \in RequestTopics, p \in RequestPayloads : ProduceRejected(w, t, p)
    \/ \E t \in Topics : create_topic_call(t)
    \/ \E t \in Topics : subscribe(t, SubIdOrder[1], 0, SessionExecutor)

RegistryStep ==
    \/ \E w \in Workers, t \in Topics, p \in Payloads : LookupMiss(w, t, "produce", p)
    \/ \E w \in Workers, t \in Topics : LookupMiss(w, t, "create_topic", << >>)
    \/ \E w \in Workers : CreateAfterMiss(w)
    \/ \E w \in Workers : AppendPending(w)

SessionStep ==
    \/ \E t \in SessionTopics, id \in SubIds, k \in StartOffsets :
           handle_subscribe_topic_request(t, id, k)
    \/ run_catch_up
    \/ \E i \in 1 .. Len(posted) : run_posted_task(i)

FaultStep ==
    \/ \E w \in Workers, t \in Topics, p \in Payloads, stage \in Stages, k \in 0 .. 2 * U64 :
           CrashInAppend(w, t, p, stage, k)
    \/ \E t \in Topics, k \in 1 .. 2 * U64 : TruncateDataTail(t, k)

\* The topic log and the facade in normal operation: concurrent produce,
\* topic creation, clean restarts.
Next == ProduceStep \/ LifeStep
Spec == Init /\ [][Next]_vars

\* The fan-out: concurrent produce against subscribe and unsubscribe calls
\* within one process lifetime.
NextFanout == ProduceStep \/ SubStep
SpecFanout == Init /\ [][NextFanout]_vars

\* A WebSocket session subscribing with catch-up on a server that found one
\* record at startup, against concurrent produce.
NextSession == ProduceStep \/ SessionStep
SpecSession == InitSeeded /\ [][NextSession]_vars

\* The facade: valid and invalid produce requests, create_topic calls on new
\* and existing topics, and one subscriber.
NextFacade == ProduceStep \/ FacadeStep
SpecFacade == Init /\ [][NextFacade]_vars

\* The topic registry with the two lookups of get_or_create_topic as
\* separate steps of concurrent workers.
NextRegistry == ProduceStep \/ RegistryStep
SpecRegistry == Init /\ [][NextRegistry]_vars

\* Produce and consume when writes of append_message fail.
NextIo == ProduceStep \/ IoStep
SpecIo == Init /\ [][NextIo]_vars

\* Failing writes with a subscriber that is pushed the new records.
IoFanoutStep ==
    \/ \E t \in Topics : subscribe(t, SubIdOrder[1], 0, SessionExecutor)
    \/ \E i \in 1 .. Len(posted) : run_posted_task(i)

NextIoFanout == ProduceStep \/ IoStep \/ IoFanoutStep
SpecIoFanout == Init /\ [][NextIoFanout]_vars

\* One WebSocket session that subscribes and is closed, with producers.
CloseStep ==
    \/ \E t \in SessionTopics, id \in SubIds : handle_subscribe_topic_request(t, id, 0)
    \/ \E is_open \in BOOLEAN : do_close(is_open)
    \/ run_catch_up
    \/ \E i \in 1 .. Len(posted) : run_posted_task(i)

NextClose == ProduceStep \/ CloseStep
SpecClose == InitSeeded /\ [][NextClose]_vars

\* One subscriber that subscribes and unsubscribes while producers append
\* and the tasks posted for it run on its executor.
UnsubscribeStep ==
    \/ \E t \in Topics : subscribe(t, SubIdOrder[1], 0, SessionExecutor)
    \/ \E t \in Topics : unsubscribe(t, SubIdOrder[1])
    \/ unsubscribe_all(SubIdOrder[1])
    \/ \E i \in 1 .. Len(posted) : run_posted_task(i)

NextUnsubscribe == ProduceStep \/ UnsubscribeStep
SpecUnsubscribe == Init /\ [][NextUnsubscribe]_vars

\* Two WebSocket sessions, each with its own strand, sending subscribe and
\* unsubscribe requests while producers append.
SessionsStep ==
    \/ \E x \in Executors, t \in SessionTopics, id \in SubIds :
           handle_subscribe_topic_request_on(x, t, id, 0)
    \/ \E x \in Executors, t \in SessionTopics, id \in SubIds :
           handle_unsubscribe_topic_request_on(x, t, id)
    \/ \E w \in Workers, p \in Payloads : ProduceAppend(w, SeedTopic, p)
    \/ \E w \in Workers : ProduceNotify(w)
    \/ run_catch_up

NextSessions == SessionsStep
SpecSessions == Init /\ [][NextSessions]_vars

\* Readers calling consume, get_next_topic_offset and list_topics, with any
\* arguments, next to producers and one subscriber.
ReadStep ==
    \/ \E t \in RequestTopics, o \in ReadStarts, n \in ReadLimits : consume_call(t, o, n)
    \/ \E t \in RequestTopics : get_next_topic_offset_call(t)
    \/ list_topics_call
    \/ \E t \in Topics : subscribe(t, SubIdOrder[1], 0, SessionExecutor)

NextRead == ProduceStep \/ ReadStep
SpecRead == Init /\ [][NextRead]_vars

\* Appends, clean restarts and a crash inside append_message: the files are
\* touched by the server only.
NextCrashPoints ==
    \/ ProduceStep
    \/ LifeStep
    \/ \E w \in Workers, t \in Topics, p \in Payloads, stage \in Stages, k \in 0 .. 2 * U64 :
           CrashInAppend(w, t, p, stage, k)

SpecCrashPoints == Init /\ [][NextCrashPoints]_vars

\* Restarts over a data directory an earlier run left behind, with one
\* append at most in between.
NextRecovery ==
    \/ Start
    \/ Stop
    \/ \E w \in Workers : ProduceAppend(w, SeedTopic, SeedPayload)
    \/ \E w \in Workers : ProduceNotify(w)

SpecRecovery == InitLeftBehind /\ [][NextRecovery]_vars

\* Dispatch with a post that throws.
DispatchStep ==
    \/ \E t \in Topics, id \in SubIds : subscribe(t, id, 0, SessionExecutor)
    \/ \E w \in Workers, k \in 1 .. Len(SubIdOrder) : ProduceNotifyPostThrows(w, k)
    \/ \E i \in 1 .. Len(posted) : run_posted_task(i)
    \/ \E i \in 1 .. Len(posted) : run_posted_task_throws(i)

NextDispatch == ProduceStep \/ DispatchStep
SpecDispatch == Init /\ [][NextDispatch]_vars

\* The topic log under crashes inside append and tail truncation.
NextCrash == ProduceStep \/ LifeStep \/ FaultStep
SpecCrash == Init /\ [][NextCrash]_vars

\* ------------------------------------------------------------------ claims
\* The records consume returns for the (offset, payload) history h of topic t.
Records(t, h) == [i \in 1 .. Len(h) |-> Message(h[i].offset, t, h[i].payload)]

\* C1: for every topic, the offsets returned by the successful produce calls,
\* taken in the order the appends acquired the topic lock, are 0, 1, 2, ...
\* (so they are pairwise distinct), also when several workers produce
\* concurrently.
C1_OffsetsContiguous ==
    \A t \in Topics : \A i \in 1 .. Len(appended[t]) : appended[t][i].offset = i - 1

\* C1 witness: every worker is inside produce on the same topic at once, each
\* holding the offset its append returned.
C1_Witness ==
    \E t \in Topics :
        /\ Len(appended[t]) >= 2
        /\ \A w \in Workers : pc[w] = "notify" /\ new_msg[w].topic = t
        /\ \A w1, w2 \in Workers : w1 # w2 => new_msg[w1].offset # new_msg[w2].offset

\* C2: after any sequence of produce calls, consume(T, 0, unbounded) returns
\* the produced payloads in production order, each at the offset its produce
\* call returned, and consume(T, offset, 1) returns exactly the record that
\* produce call wrote.
C2_ConsumeReturnsProduced ==
    running =>
        \A t \in Topics :
            /\ consume_all(t) = Records(t, appended[t])
            /\ \A i \in 1 .. Len(appended[t]) :
                   consume(t, appended[t][i].offset, 1) = <<Records(t, appended[t])[i]>>

\* C2 witness: a topic holds two records of different payload length.
C2_Witness ==
    /\ running
    /\ \E t \in Topics :
           /\ Len(appended[t]) = 2
           /\ Len(appended[t][1].payload) # Len(appended[t][2].payload)
           /\ Len(consume_all(t)) = 2

\* C3: a clean restart changes neither what consume(T, 0, unbounded) returns
\* (offsets and payloads) nor get_next_offset(T), for any topic.
C3_RestartPreservesRecords ==
    [][(~running /\ running') => observed' = preStop]_vars

\* C3 witness: the server is up again after a restart and a topic that held
\* two records before the restart is consumed.
C3_Witness ==
    /\ running
    /\ nRestarts >= 1
    /\ \E t \in Topics : Len(preStop[t].records) = 2 /\ Len(consume_all(t)) = 2

\* C25: list_topics after a restart returns exactly the names it returned
\* before the process went down, and while the server runs a name is
\* registered exactly if its topic was created (its directory exists).
C25_ListTopicsSurvivesRestart ==
    /\ [][(~running /\ running') => list_topics' = listed]_vars
    /\ [](running => list_topics = dirs)

\* C25 witness: the server is up again and lists a topic that was created
\* with create_topic and holds no record, and one that was produced to.
C25_Witness ==
    /\ running
    /\ nRestarts >= 1
    /\ listed = Topics
    /\ list_topics = Topics
    /\ \E t \in Topics : consume_all(t) = << >>
    /\ \E t \in Topics : consume_all(t) # << >>

\* The process comes up again in this step.
Restarting == ~running /\ running'

\* What recovery starts from for topic t: next_offset_ as load_metadata
\* leaves it and the index map as load_index leaves it.
loaded(t) == [next_offset |-> load_metadata(metadata_meta[t]),
              map |-> load_index(index_idx[t])]

\* C27: during recovery the data log is scanned exactly if it is non-empty
\* and the index map is empty or its highest offset is below
\* next_offset - 1; in particular it is scanned when the metadata reads 0,
\* the data log is non-empty and the index is empty.
C27_ScanCondition ==
    [][Restarting =>
          \A t \in dirs :
              needs_rebuild(loaded(t).next_offset, loaded(t).map, data_log[t])
              <=> /\ Len(data_log[t]) > 0
                  /\ \/ DOMAIN loaded(t).map = {}
                     \/ SetMax(DOMAIN loaded(t).map) < loaded(t).next_offset - 1]_vars

Min(a, b) == IF a < b THEN a ELSE b

\* C29: with offsets 0 .. n-1 committed, read(start_offset, max_records)
\* returns exactly the records of offsets start_offset ..
\* min(start_offset + max_records, n) - 1 in increasing order (the payloads
\* appended under them); nothing when start_offset >= n or max_records = 0;
\* never a record at or past next_offset, never more than max_records.
C29_ReadRange ==
    running =>
        \A t \in topics_, start_offset \in ReadStarts, max_records \in ReadLimits :
            LET n == get_next_offset(t)
                msgs == get_messages(t, start_offset, max_records)
                last == Min(start_offset + max_records, n)
            IN  /\ Len(msgs) = IF last > start_offset THEN last - start_offset ELSE 0
                /\ \A i \in DOMAIN msgs :
                       msgs[i] = Message(start_offset + i - 1, t,
                                         appended[t][start_offset + i].payload)
                /\ Len(msgs) <= max_records
                /\ \A i \in DOMAIN msgs : msgs[i].offset < n

\* C29 witness: a topic holds two records after a restart, and a read from
\* offset 1 with room for more returns the second record alone while a read
\* from offset 0 limited to one record returns the first alone.
C29_Witness ==
    /\ running
    /\ nRestarts >= 1
    /\ \E t \in topics_ :
           /\ get_next_offset(t) = 2
           /\ get_messages(t, 1, MaxAppends + 1)
                  = <<Message(1, t, appended[t][2].payload)>>
           /\ get_messages(t, 0, 1) = <<Message(0, t, appended[t][1].payload)>>

\* A read of topic t from start_offset stops before next_offset: a record
\* could not be read or carried another offset than expected.
stops_early(t, start_offset) ==
    /\ start_offset < get_next_offset(t)
    /\ Len(get_messages(t, start_offset, NoLimit)) < get_next_offset(t) - start_offset

\* Topic::get_messages over the files and the Topic object this step leaves.
get_messages_after(t, start_offset, max_messages) ==
    read_messages(t, data_log'[t], offset_to_byte_pos_'[t], next_offset_'[t],
                  start_offset, max_messages)

\* A record is appended to topic t in this step.
Appending(t) == running /\ running' /\ Len(appended'[t]) = Len(appended[t]) + 1

\* C30: a read that meets a record it cannot read, or one with another
\* offset than expected, stops there and returns the records accumulated
\* before it (what a read limited to that many records returns), and the
\* topic stays usable: a later append to it succeeds with the next offset,
\* its record can be read, and every offset that could be read before the
\* append can still be read.
C30_ReadStopsTopicUsable ==
    /\ [](running =>
            \A t \in topics_, start_offset \in ReadStarts, max_records \in ReadLimits :
                LET msgs == get_messages(t, start_offset, NoLimit)
                IN  stops_early(t, start_offset) =>
                        get_messages(t, start_offset, max_records)
                            = Prefix(msgs, Min(max_records, Len(msgs))))
    /\ [][\A t \in Topics :
              (Appending(t) /\ t \in topics_ /\ \E o \in ReadStarts : stops_early(t, o)) =>
                  LET new == appended'[t][Len(appended'[t])]
                  IN  /\ new.offset = next_offset_[t]
                      /\ next_offset_'[t] = next_offset_[t] + 1
                      /\ get_messages_after(t, new.offset, 1)
                             = <<Message(new.offset, t, new.payload)>>
                      /\ \A o \in ReadStarts :
                             get_messages(t, o, 1) # << >> =>
                                 get_messages_after(t, o, 1) = get_messages(t, o, 1)]_vars

\* C30 witness: the tail of a topic's data log was cut inside a record, a
\* read from offset 0 stops before next_offset, and the record appended
\* after the restart is read back.
C30_Witness ==
    /\ running
    /\ lastStop.kind = "truncated"
    /\ \E t \in topics_ :
           /\ lastStop.topic = t
           /\ stops_early(t, 0)
           /\ Len(appended[t]) = 2
           /\ get_messages(t, 1, 1) = <<Message(1, t, appended[t][2].payload)>>

\* C28: when recovery has completed, with a scan or without, next_offset is
\* the highest offset of the index map plus one (0 for an empty map) and the
\* metadata file holds the same value.
C28_NextOffsetAfterRecovery ==
    [][Restarting =>
          \A t \in topics_' :
              /\ next_offset_'[t] = IF DOMAIN offset_to_byte_pos_'[t] = {} THEN 0
                                    ELSE SetMax(DOMAIN offset_to_byte_pos_'[t]) + 1
              /\ load_metadata(metadata_meta'[t]) = next_offset_'[t]]_vars

\* Topic t is recovered: its next offset is the number of records completely
\* written to its data log and consume returns exactly those records.
RecoveredAll(t) ==
    /\ get_next_topic_offset(t) = Len(written[t])
    /\ consume_all(t) = Records(t, written[t])

\* C4: after a crash inside append (after the data-log flush but before the
\* index write, after the index flush but before the metadata write, or
\* during the metadata rewrite) and the restart, next_offset is one greater
\* than the largest offset recoverable from the data log and consume returns
\* exactly the recoverable records.
C4_CrashPointRecovered ==
    [][(/\ Restarting
        /\ lastStop.kind = "crash"
        /\ \/ lastStop.stage = "data" /\ lastStop.complete
           \/ lastStop.stage = "index" /\ lastStop.complete
           \/ lastStop.stage = "meta")
       => RecoveredAll(lastStop.topic)']_vars

\* C5: when the last record of the data log is cut short while the process is
\* down, the restart excludes it: with n records appended, get_next_offset
\* returns n - 1 and consume returns the offsets 0 .. n - 2 only.
C5_TruncatedTailExcluded ==
    [][(Restarting /\ lastStop.kind = "truncated")
       => LET t == lastStop.topic
          IN  /\ get_next_topic_offset(t)' = Len(appended[t]) - 1
              /\ consume_all(t)' = Records(t, Prefix(appended[t], Len(appended[t]) - 1))]_vars

\* C6: when a crash during the metadata rewrite left the metadata file empty
\* or partially written while data log and index hold n records, the restart
\* restores next_offset = n, consume returns the n records, and the next
\* produce is assigned offset n.
C6_MetadataLossRecovered ==
    [][/\ (Restarting /\ lastStop.kind = "crash" /\ lastStop.stage = "meta"
              /\ lastStop.bytes < U64)
          => RecoveredAll(lastStop.topic)'
       /\ \A t \in Topics :
              (/\ running
               /\ lastStop.kind = "crash" /\ lastStop.stage = "meta" /\ lastStop.bytes < U64
               /\ lastStop.topic = t
               /\ Len(appended'[t]) = Len(appended[t]) + 1)
              => appended'[t][Len(appended'[t])].offset = Len(written[t])]_vars

\* C7: after any sequence of appends, crashes and restarts the complete
\* records of a data log carry the offsets 0, 1, 2, ... in log order: unique,
\* strictly increasing, no append reusing an offset already in the log.
C7_LogOffsetsUnique ==
    \A t \in Topics : \A i \in 1 .. Len(written[t]) : written[t][i].offset = i - 1

\* The tasks posted for subscriber s of topic t since its latest subscribe.
DeliveredTo(t, s) ==
    SelectSeq(SubSeq(posted, sub_hist[t][s].posted_at + 1, Len(posted)),
              LAMBDA x : x.topic = t /\ x.subscriber_id = s)

\* The offsets of topic t whose notification ran since the latest subscribe
\* of s.
NotifiedSince(t, s) == SubSeq(notified[t], sub_hist[t][s].notified_at + 1, Len(notified[t]))

StrictlyIncreasing(q) == \A i, j \in 1 .. Len(q) : i < j => q[i] < q[j]

\* Subscriber s has subscribed to topic t (and may have unsubscribed since).
HasSubscribed(t, s) == sub_hist[t][s].exec # ""

TasksFor(q, s) == SelectSeq(q, LAMBDA x : x.subscriber_id = s)

\* C9: once unsubscribe_all(id) has returned (and id has not subscribed
\* again), no step enqueues a delivery for id, on any topic.
C9_NoDeliveryAfterUnsubscribeAll ==
    [][\A s \in SubIds :
          (swept[s] # NotSwept /\ swept'[s] # NotSwept)
          => TasksFor(posted', s) = TasksFor(posted, s)]_vars

C9_Witness ==
    \E s \in SubIds, t \in Topics :
        /\ swept[s] # NotSwept
        /\ HasSubscribed(t, s)
        /\ Len(notified[t]) > swept[s][t]
        /\ notified[t][Len(notified[t])] >= sub_hist[t][s].start

Quiescent ==
    /\ \A w \in Workers : pc[w] = "idle"
    /\ catchup = << >>
    /\ done = 1 .. Len(posted)

\* Subscriber s has been handed record o of topic t, by catch-up or by push.
HasReceived(s, t, o) ==
    \E i \in 1 .. Len(received) :
        /\ received[i].subscriber_id = s
        /\ received[i].topic = t
        /\ \E j \in 1 .. Len(received[i].messages) :
               received[i].messages[j] = Message(o, t, appended[t][o + 1].payload)

\* C11: when a session subscribed at start_offset k to a topic that already
\* held more than k records, then once everything in flight has run the
\* records it was handed (catch-up and pushes together) cover every offset
\* from k to the latest produced one, with the produced payloads.
C11_CatchUpCovers ==
    \A t \in Topics, s \in SubIds :
        (/\ Quiescent
         /\ sub_hist[t][s].live
         /\ sub_hist[t][s].start < sub_hist[t][s].notified_at)
        => \A o \in sub_hist[t][s].start .. Len(appended[t]) - 1 : HasReceived(s, t, o)

\* A write of append_message fails in this step (the process stays up).
IoErrorInAppend == nFaults' = nFaults + 1 /\ running /\ running'

\* C12: an append that meets an I/O error is reported to the caller as an
\* error: the call returns no offset, next_offset is not advanced, and no
\* notification follows for the record.
C12_IoErrorSurfaces ==
    [][IoErrorInAppend
       => /\ next_offset_' = next_offset_
          /\ appended' = appended
          /\ pc' = pc]_vars

\* C13: a produce with an empty topic name or an empty payload is rejected
\* and changes nothing: no topic or directory is created, no file written,
\* no next_offset moved, no notification prepared or posted; and no record
\* with an empty payload is ever appended.
C13_InvalidProduceRejected ==
    [][/\ rejected' # rejected
          => UNCHANGED <<disk, topicMem, workers, topic_subscriptions_, posted, appended,
                         notified>>
       /\ \A t \in Topics :
              appended'[t] # appended[t] => appended'[t][Len(appended'[t])].payload # << >>]_vars

C13_Witness ==
    /\ rejected # << >>
    /\ \E t \in Topics :
           /\ appended[t] # << >>
           /\ t \in DOMAIN topic_subscriptions_
    /\ \E i \in 1 .. Len(rejected) : rejected[i].topic # "" /\ rejected[i].payload = << >>

\* C14: for a topic name that was never created nor produced to, consume
\* returns the empty list, whatever start_offset and max_messages, and
\* get_next_topic_offset returns 0.
C14_UnknownTopicEmpty ==
    running =>
        \A t \in Topics \ dirs :
            /\ get_next_topic_offset(t) = 0
            /\ \A k \in StartOffsets, max \in {1, CatchUpBatch, NoLimit} : consume(t, k, max) = << >>

C14_Witness ==
    /\ running
    /\ nRestarts >= 1
    /\ \E t, u \in Topics : t \notin dirs /\ u \in topics_ /\ get_next_topic_offset(u) > 0

\* C15: create_topic is idempotent. Every call returns success; a call on a
\* topic that is already registered, with or without records, leaves the
\* registry, the topic directory, the files, the records and next_offset as
\* they were, and constructs no second Topic.
C15_CreateTopicIdempotent ==
    [][creates' # creates =>
          LET c == creates'[Len(creates')]
          IN  /\ c.result
              /\ c.topic \in topics_' /\ c.topic \in dirs'
              /\ c.existed =>
                     /\ UNCHANGED <<disk, topicMem, constructed>>
                     /\ observed' = observed]_vars

C15_Witness ==
    /\ Len(creates) = 2
    /\ creates[1].topic = creates[2].topic
    /\ creates[1].existed /\ creates[1].next_offset > 0
    /\ creates[2].existed /\ creates[2].next_offset > 0

\* C16: under concurrent produce, create_topic and consume calls naming the
\* same topic, at most one Topic is constructed and registered per name, and
\* every caller that gets past get_or_create_topic works on the registered
\* one.
C16_SingleTopicInstance ==
    \A t \in Topics :
        /\ constructed[t] <= 1
        /\ t \in topics_ <=> constructed[t] = 1
        /\ \A w \in Workers : pc[w] = "append" /\ pending[w].topic = t => t \in topics_

C16_Witness ==
    \E w, v \in Workers :
        /\ w # v
        /\ pc[w] = "create" /\ pending[w].op = "create_topic"
        /\ pc[v] = "append" /\ pending[v].topic = pending[w].topic
        /\ constructed[pending[w].topic] = 1

\* C17: a delivery callback never runs inside on_new_message on the
\* producer's path: a step in which a callback runs is not a step of
\* produce, on_new_message, subscribe or unsubscribe (the steps that hold
\* the registry lock), and every push delivery is the run of a task that
\* was posted before.
C17_CallbacksOnlyPosted ==
    [][received' # received =>
          /\ UNCHANGED <<topic_subscriptions_, pc, new_msg, notified, posted>>
          /\ LET d == received'[Len(received')]
             IN  /\ d.how \in {"push", "catchup"}
                 /\ d.how = "push" =>
                        \E i \in done' \ done : delivery(posted[i], "push") = d]_vars

C17_Witness ==
    /\ \E i \in 1 .. Len(received) : received[i].how = "push"
    /\ \E w \in Workers : pc[w] = "notify"
    /\ Len(posted) > Cardinality(done)

\* The append of record m is complete: the topic's next offset is past it,
\* metadata.meta and index.idx on disk cover it, and consume(T, o, 1)
\* returns it.
committed(m) ==
    /\ m.topic \in topics_
    /\ next_offset_[m.topic] > m.offset
    /\ load_metadata(metadata_meta[m.topic]) > m.offset
    /\ m.offset \in DOMAIN load_index(index_idx[m.topic])
    /\ consume(m.topic, m.offset, 1) = <<m>>

\* C18: the notification for offset o is issued only after the append of o
\* is committed, so a producer about to notify holds a committed record, and
\* a record handed to a subscriber is returned by consume(T, o, 1).
C18_NotifyAfterCommit ==
    /\ \A w \in Workers : pc[w] = "notify" => committed(new_msg[w])
    /\ \A i \in 1 .. Len(received) :
           received[i].how = "push" =>
               \A j \in 1 .. Len(received[i].messages) :
                   LET m == received[i].messages[j]
                   IN  consume(m.topic, m.offset, 1) = <<m>>

\* The matching subscribers of message m that a dispatch step left without
\* a posted task or without an advanced cursor.
missed(m) ==
    LET subscribers == subscribers_of(topic_subscriptions_, m.topic)
        new_tasks == SubSeq(posted', Len(posted) + 1, Len(posted'))
    IN  {id \in matching(subscribers, m) :
            \/ topic_subscriptions_'[m.topic][id].next_offset_needed # m.offset + 1
            \/ \A i \in 1 .. Len(new_tasks) :
                   new_tasks[i].subscriber_id # id \/ new_tasks[i].messages_batch # <<m>>}

\* C19: when the dispatch of a record to one subscriber fails inside
\* on_new_message, every other matching subscriber of the topic still has
\* its delivery posted and its cursor advanced, and produce returns the
\* offset: a notify step misses at most one matching subscriber, and none
\* when nothing fails.
C19_DispatchFailureIsolated ==
    [][\A w \in Workers :
           pc[w] = "notify" /\ pc'[w] # "notify" =>
               /\ pc'[w] = "idle"
               /\ Cardinality(missed(new_msg[w])) <= nFaults' - nFaults]_vars

\* C20: when a delivery callback throws, the exception is suppressed: the
\* registry and the producers are untouched by it, the thread that ran the
\* task goes on serving tasks, and the subscriber's cursor stays past the
\* record.
C20_CallbackThrowSuppressed ==
    [][\A i \in done' \ done :
           received' = received =>
               /\ UNCHANGED <<topic_subscriptions_, pc, new_msg, notified>>
               /\ io_threads' = io_threads
               /\ LET task == posted[i]
                      subscribers == subscribers_of(topic_subscriptions_', task.topic)
                  IN  task.subscriber_id \in DOMAIN subscribers =>
                          subscribers[task.subscriber_id].next_offset_needed
                              > task.messages_batch[1].offset]_vars

\* C21: once the WebSocket session has closed, no subscription it
\* registered is left in the registry, and no later produce posts a
\* delivery for it. (The session is the only subscriber here.)
C21_CloseUnsubscribesAll ==
    /\ [](ws_state = "closed" => registered = {})
    /\ [][ws_state = "closed" => posted' = posted]_vars

\* The value of the four bytes at 0-based position p, first byte most
\* significant.
net32(data, p) ==
    data[p + 1] * 16777216 + data[p + 2] * 65536 + data[p + 3] * 256 + data[p + 4]

\* The integers of the serialized struct are big-endian on the wire.
BigEndianOnWire ==
    LET x == codec_value.x
        b == codec_buffer
    IN  CASE codec_value.kind = "RequestHeader" -> net32(b, 1) = x.payload_length
          [] codec_value.kind = "ResponseHeader" -> net32(b, 2) = x.payload_length
          [] codec_value.kind = "ProduceRequest" ->
                 /\ b[1] * 256 + b[2] = Len(x.topic_name)
                 /\ net32(b, U16 + Len(x.topic_name)) = Len(x.message_payload)
          [] codec_value.kind = "ProduceResponse" -> net32(b, 0) = 0 /\ net32(b, 4) = x.offset
          [] codec_value.kind = "ConsumeRequest" ->
                 /\ net32(b, U16 + Len(x.topic_name) + 4) = x.start_offset
                 /\ net32(b, U16 + Len(x.topic_name) + U64) = x.max_messages
          [] codec_value.kind = "ConsumeResponse" -> net32(b, 0) = Len(x.messages)
          [] codec_value.kind = "ErrorResponsePayload" -> net32(b, 0) = Len(x.error_message)

\* Every message of the ConsumeResponse carries the topic that deserialize
\* is given as topic_name_context.
TopicIsContext ==
    codec_value.kind = "ConsumeResponse" =>
        \A i \in 1 .. Len(codec_value.x.messages) :
            codec_value.x.messages[i].topic = codec_value.context

\* C24 as stated: for every struct of the binary protocol and both headers,
\* deserialize(serialize(x)) yields x, with big-endian integers on the wire.
C24_RoundTripAny ==
    /\ codec_stage \in {"wire", "decoded"} => BigEndianOnWire
    /\ codec_stage = "decoded" => codec_result = Decoded(codec_value.x)

\* C24, amended: deserialize(serialize(x)) yields x, with big-endian
\* integers on the wire, for both headers and every payload struct; for
\* ConsumeResponse, which does not carry the topic of its messages, when
\* every message has the topic given to deserialize as context.
C24_RoundTrip ==
    /\ codec_stage \in {"wire", "decoded"} => BigEndianOnWire
    /\ codec_stage = "decoded" /\ TopicIsContext => codec_result = Decoded(codec_value.x)

C24_Witness ==
    /\ codec_stage = "decoded"
    /\ codec_value.kind = "ConsumeResponse"
    /\ Len(codec_value.x.messages) = 2
    /\ TopicIsContext
    /\ codec_result = Decoded(codec_value.x)

\* ------------------------------------------------ subscription registry
\* The (topic, subscriber id) pairs the registry holds.
entries(ts) == {<<t, id>> \in Topics \X SubIds : t \in DOMAIN ts /\ id \in DOMAIN ts[t]}

\* C31: subscribe(topic, id, start_offset, executor, callback) upserts: when
\* it returns the registry holds one entry for (topic, id), with
\* next_offset_needed = start_offset and the executor supplied, in place of
\* any earlier entry of the pair; every entry is filed under its own
\* subscriber id, and the entries of other subscribers and topics are as
\* they were.
C31_SubscribeUpserts ==
    /\ [](\A e \in entries(topic_subscriptions_) :
              topic_subscriptions_[e[1]][e[2]].subscriber_id = e[2])
    /\ [][\A t \in Topics, id \in SubIds, k \in StartOffsets, x \in Executors :
              subscribe(t, id, k, x) =>
                  /\ entries(topic_subscriptions_') = entries(topic_subscriptions_) \cup {<<t, id>>}
                  /\ topic_subscriptions_'[t][id] = SubscriberInfo(id, k, x)
                  /\ \A e \in entries(topic_subscriptions_) \ {<<t, id>>} :
                         topic_subscriptions_'[e[1]][e[2]] = topic_subscriptions_[e[1]][e[2]]]_vars

\* C31 witness: two subscribe calls were made for the same pair and no
\* unsubscribe; the registry holds the one entry, with the cursor and the
\* executor of the second call while another subscriber's entry is absent.
C31_Witness ==
    /\ nSubOps = 2 /\ nUnsubs = 0 /\ nAppends = 0
    /\ \E t \in Topics, id \in SubIds :
           /\ entries(topic_subscriptions_) = {<<t, id>>}
           /\ topic_subscriptions_[t][id] = SubscriberInfo(id, MaxStart, "e2")

\* The cursor of every entry the step keeps is at or past where it was.
CursorsForward ==
    \A e \in entries(topic_subscriptions_) \cap entries(topic_subscriptions_') :
        topic_subscriptions_'[e[1]][e[2]].next_offset_needed
            >= topic_subscriptions_[e[1]][e[2]].next_offset_needed

\* C32 as stated: the next_offset_needed of every subscriber entry only
\* moves forward, over subscribe, unsubscribe, unsubscribe_all and
\* on_new_message alike.
C32_CursorForwardAlways == [][CursorsForward]_vars

\* C32, amended: the next_offset_needed of a subscriber entry only moves
\* forward under on_new_message, unsubscribe and unsubscribe_all; a
\* subscribe call for the pair sets it to the start_offset it is given,
\* which may lie before the cursor of the entry it replaces.
C32_CursorForward == [][nSubOps' = nSubOps => CursorsForward]_vars

\* C32 witness: a subscriber that subscribed at offset 0 was dispatched two
\* records and its cursor stands after the second.
C32_Witness ==
    \E t \in Topics, id \in SubIds :
        /\ <<t, id>> \in entries(topic_subscriptions_)
        /\ sub_hist[t][id].start = 0
        /\ Len(notified[t]) = 2
        /\ topic_subscriptions_[t][id].next_offset_needed = 2

\* The offsets appended to topic t after the latest subscribe of (t, s).
ProducedSince(t, s) ==
    [i \in 1 .. Len(appended[t]) - sub_hist[t][s].appended_at |->
        appended[t][sub_hist[t][s].appended_at + i].offset]

\* C33: with several producers appending concurrently to topic T, a
\* subscriber that stays subscribed from offset k is handed every record
\* with offset >= k produced since exactly once, in whatever order the
\* notifications of two offsets reach the subscription registry.
C33_ConcurrentProducersDeliverAll ==
    \A t \in Topics, s \in SubIds :
        (sub_hist[t][s].live /\ \A w \in Workers : pc[w] = "idle") =>
            LET d == DeliveredTo(t, s)
                since == ProducedSince(t, s)
            IN  \A i \in 1 .. Len(since) :
                    since[i] >= sub_hist[t][s].start =>
                        Cardinality({j \in 1 .. Len(d) :
                                        d[j].messages_batch[1].offset = since[i]}) = 1

\* C34: once unsubscribe(topic, id) or unsubscribe_all(id) has returned, no
\* delivery callback of that subscriber is executed any more: every task
\* that runs belongs to a subscription that is still registered.
C34_NoDeliveryAfterUnsubscribe ==
    [][\A i \in 1 .. Len(posted) :
          run_posted_task(i) =>
              sub_hist[posted[i].topic][posted[i].subscriber_id].live]_vars

\* C35: a subscribe or unsubscribe request issued by one WebSocket session
\* never replaces, redirects or removes a subscription registered by a
\* different session: every entry whose executor is another session's
\* strand is left as it was.
C35_SessionsIsolated ==
    [][\A x \in Executors, t \in SessionTopics, id \in SubIds :
          (\/ handle_subscribe_topic_request_on(x, t, id, 0)
           \/ handle_unsubscribe_topic_request_on(x, t, id)) =>
              \A e \in entries(topic_subscriptions_) :
                  topic_subscriptions_[e[1]][e[2]].client_executor # x =>
                      /\ e \in entries(topic_subscriptions_')
                      /\ topic_subscriptions_'[e[1]][e[2]] =
                             topic_subscriptions_[e[1]][e[2]]]_vars

\* C36: consume, get_next_topic_offset and list_topics are read-only for
\* any arguments, a topic that does not exist included: the topic registry,
\* every topic's next_offset_, index and data log and the subscription
\* registry are as before the call, and no notification is issued.
C36_ReadsChangeNothing ==
    [][(\/ \E t \in RequestTopics, o \in ReadStarts, n \in ReadLimits : consume_call(t, o, n)
        \/ \E t \in RequestTopics : get_next_topic_offset_call(t)
        \/ list_topics_call) =>
           UNCHANGED <<topics_, next_offset_, offset_to_byte_pos_, disk,
                       topic_subscriptions_, posted, notified>>]_vars

\* C36 witness: a consume returned the two records of a topic that has a
\* subscriber, after a consume of a topic that does not exist was tried.
C36_Witness ==
    /\ returned.op = "consume"
    /\ Len(returned.messages) = 2
    /\ \E t \in Topics :
           /\ returned.messages[1].topic = t
           /\ t \in DOMAIN topic_subscriptions_
           /\ Topics \ topics_ # {}

\* data.log f holds at byte p a complete record whose stored offset is o.
RecordAt(f, p, o) ==
    /\ can_read(f, p, U64)
    /\ can_read_string(f, p + U64)
    /\ read_binary(f, p, U64) = o

\* C37: after any sequence of appends and clean restarts, every entry
\* (o, p) of a topic's in-memory index points at the first byte of a complete
\* data-log record whose stored offset is o, and the index is monotonic in
\* keys and values; the byte position an append records, the first append
\* after a restart included, is the size of the data log before it.
C37_IndexPointsAtRecords ==
    /\ [](running =>
            \A t \in topics_ :
                LET m == offset_to_byte_pos_[t]
                IN  \A o \in DOMAIN m :
                        /\ RecordAt(data_log[t], m[o], o)
                        /\ \A o2 \in DOMAIN m : o < o2 => m[o] < m[o2])
    /\ [][\A t \in Topics :
              Appending(t) =>
                  offset_to_byte_pos_'[t][appended'[t][Len(appended'[t])].offset]
                      = Len(data_log[t])]_vars

\* C37 witness: a topic held one record when the server was stopped, and the
\* first append after the restart recorded the size of that record as the
\* position of offset 1.
C37_Witness ==
    /\ running
    /\ nRestarts >= 1
    /\ \E t \in topics_ :
           /\ Len(preStop[t].records) = 1
           /\ Len(appended[t]) = 2
           /\ 1 \in DOMAIN offset_to_byte_pos_[t]
           /\ offset_to_byte_pos_[t][1] = Len(data_record(0, appended[t][1].payload))

\* The complete (offset, byte_position) pairs of index file f, as a reader
\* of 16-byte entries from the start of the file finds them.
index_pairs(f) ==
    {<<read_binary(f, 2 * U64 * i, U64), read_binary(f, 2 * U64 * i + U64, U64)>> :
        i \in 0 .. (Len(f) \div (2 * U64)) - 1}

\* C38: at every point a crash can leave the files in, through appends,
\* crashes and recoveries, the durable files are ordered data >= index >=
\* metadata: every complete pair of the index file refers to a record that
\* is fully written in the data log, and a readable metadata next_offset is
\* at most the highest offset of the index file plus one (0 when it is
\* empty).
C38_DurableFilesOrdered ==
    \A t \in Topics :
        LET pairs == index_pairs(index_idx[t])
        IN  /\ \A e \in pairs : RecordAt(data_log[t], e[2], e[1])
            /\ can_read(metadata_meta[t], 0, U64) =>
                   read_binary(metadata_meta[t], 0, U64)
                       <= (IF pairs = {} THEN 0 ELSE SetMax({e[1] : e \in pairs}) + 1)

\* What recovery leaves of topic t: the in-memory state and the two files it
\* may rewrite.
recovered(t) ==
    [next_offset |-> next_offset_[t], map |-> offset_to_byte_pos_[t],
     index |-> index_idx[t], meta |-> metadata_meta[t]]

\* C39: recovery is idempotent: a restart directly after a restart, with no
\* operation in between, leaves next_offset, index_map, the index file and
\* the metadata file exactly as the first restart left them; that is, what
\* a restart leaves is what the Topic constructor makes of it again.
C39_RecoveryIdempotent ==
    [][(~running /\ running') =>
          \A t \in dirs :
              load_or_create_files(data_log'[t], index_idx'[t], metadata_meta'[t])
                  = recovered(t)']_vars


\* C40: after SIGINT or SIGTERM the server eventually terminates: the
\* adapters are stopped, the work guard is released, run() returns in every
\* I/O thread, the threads are joined and main() returns, whichever adapters
\* are enabled.
C40_SignalTerminates == signalled ~> (main_pc = "exited")
====
